---- MODULE Spec2Model ----
(***************************************************************************)
(* Model of the Prover side of the presentation-exchange protocol of       *)
(* libvcx (v3/handlers/proof_presentation/prover/states.rs).               *)
(*                                                                         *)
(* A ProverSM is a record [source_id, state]; state is one record per      *)
(* variant of ProverState, tagged by the field "tag".  Option<T> values    *)
(* are sequences of length 0 (None) or 1 (Some).  Calls into the           *)
(* connection handler and the proof library are outside the file: their    *)
(* outcome is an input of the step (env); a step's result lists the calls  *)
(* it made in the order the code makes them, and the calls that succeeded  *)
(* (a message transmitted, a pending marker removed) are appended to the   *)
(* log "effects".                                                          *)
(***************************************************************************)
EXTENDS Integers, Sequences, FiniteSets, TLC

VARIABLES
    sm,        \* the ProverSM the driver holds
    given,     \* the arguments ProverSM::new was called with
    effects,   \* the calls to the connection handler that succeeded, in order
    errors,    \* how many calls of step returned an error
    last,      \* the last call of step: command, outcomes, input machine, result
    entry,     \* the step that brought the machine into its present variant
    query,     \* the last call of find_message_to_handle, not yet dispatched
    dl         \* the last call into the message download: input and result

vars == <<sm, given, effects, errors, last, entry, query, dl>>

----------------------------------------------------------------------------
(* Bounds *)

NumRequestIds == 2
NumHandles == 2
MaxErrors == 1
MaxMessages == 2

----------------------------------------------------------------------------
(* Values *)

None == <<>>
Some(x) == <<x>>

MessageIds == 1..NumRequestIds
Handles == 1..NumHandles
SourceIds == {"source"}
Contents == {"attach"}

\* PresentationRequest: @id and request_presentations_attach
PresentationRequests ==
    [id : MessageIds, request_presentations_attach : Contents]

ThreadIds == {None} \cup {Some(i) : i \in MessageIds}

AckStatuses == {"OK", "FAIL"}

Acks == [status : AckStatuses, thread : [thid : ThreadIds]]

\* problem reports a peer may send
PeerReports == [comment : {Some("rejected")}, thread : [thid : ThreadIds]]

Credentials == {"credentials"}
SelfAttested == {"{}"}

SendErrors == {"PostMessageFailed"}
RemoveErrors == {"InvalidConnectionHandle"}

\* Presentation::create(): the default presentation, nothing set
PresentationCreate == [thread |-> [thid |-> None], presentations_attach |-> None]

\* ProblemReport::create(): the default report, nothing set
ProblemReportCreate == [comment |-> None, thread |-> [thid |-> None]]

\* Status::code()
code(status) == status.tag

StatusUndefined == [tag |-> "Undefined"]
StatusSuccess == [tag |-> "Success"]
StatusFailed(report) == [tag |-> "Failed", report |-> report]

\* to_a2a_message of a Presentation / ProblemReport
PresentationToA2A(p) == [type |-> "Presentation", body |-> p]
ProblemReportToA2A(r) == [type |-> "CommonProblemReport", body |-> r]
AckToA2A(a) == [type |-> "Ack", body |-> a]
PresentationRequestToA2A(r) == [type |-> "PresentationRequest", body |-> r]

\* Thread::is_reply
is_reply(thread, id) == thread.thid = Some(id)

\* the wire messages a connection may hold for the Prover
A2AMessages ==
    {AckToA2A(a) : a \in {x \in Acks : x.status = "OK"}}
        \cup {ProblemReportToA2A(r) : r \in PeerReports}
        \cup {PresentationRequestToA2A(r) : r \in {x \in PresentationRequests : x.id = 1}}
        \cup {PresentationToA2A(PresentationCreate)}

\* HashMap<String, A2AMessage>: the entries in the order the iteration
\* takes them, each uid the key of one entry
Uids == 1..MaxMessages
Entries == [uid : Uids, message : A2AMessages]
MessageMaps(max) ==
    UNION {{m \in [1..n -> Entries] :
               \A i, j \in 1..n : m[i].uid = m[j].uid => i = j} : n \in 0..max}

----------------------------------------------------------------------------
(* Commands (ProverMessages) *)

PreparePresentationCmds ==
    [type : {"PreparePresentation"}, credentials : Credentials,
     self_attested_attrs : SelfAttested]
SendPresentationCmds == [type : {"SendPresentation"}, connection_handle : Handles]
AckCmds == [type : {"PresentationAckReceived"}, ack : Acks]
RejectCmds == [type : {"PresentationRejectReceived"}, problem_report : PeerReports]
ProposalCmds == [type : {"PresentationProposalReceived"}, proposal : {"proposal"}]

ProverMessages ==
    PreparePresentationCmds \cup SendPresentationCmds \cup AckCmds
        \cup RejectCmds \cup ProposalCmds

(* Outcomes of the calls a step makes outside the file.  Each field is     *)
(* "Ok" or the error the call returns.                                     *)
NoEnv == [content |-> "Ok", proof |-> "Ok", attach |-> "Ok",
          send |-> "Ok", remove |-> "Ok"]

BuildEnvs ==
    {NoEnv} \cup {[NoEnv EXCEPT !.content = e] : e \in {"InvalidJson"}}
        \cup {[NoEnv EXCEPT !.proof = e] : e \in {"InvalidProofCredentialData"}}
        \cup {[NoEnv EXCEPT !.attach = e] : e \in {"InvalidJson"}}

SendEnvs ==
    {NoEnv} \cup {[NoEnv EXCEPT !.send = e] : e \in SendErrors}
        \cup {[NoEnv EXCEPT !.remove = e] : e \in RemoveErrors}

----------------------------------------------------------------------------
(* ProverSM::new *)

new(presentation_request, source_id) ==
    [source_id |-> source_id,
     state |-> [tag |-> "Initiated", presentation_request |-> presentation_request]]

----------------------------------------------------------------------------
(* The From impls: one per transition *)

\* From<(InitialState, Presentation)> for PresentationPreparedState
PreparedFromInitial(state, presentation) ==
    [tag |-> "PresentationPrepared",
     presentation_request |-> state.presentation_request,
     presentation |-> presentation]

\* From<(InitialState, ProblemReport)> for PresentationPreparationFailedState
FailedFromInitial(state, problem_report) ==
    [tag |-> "PresentationPreparationFailed",
     presentation_request |-> state.presentation_request,
     problem_report |-> problem_report]

\* mutant: the request's attachment is moved out when the state is converted
SentFromPrepared_TakesAttachment(state, connection_handle) ==
    [tag |-> "PresentationSent",
     presentation_request |->
         [state.presentation_request EXCEPT !.request_presentations_attach = ""],
     presentation |-> state.presentation,
     connection_handle |-> connection_handle]

\* From<(PresentationPreparedState, u32)> for PresentationSentState
SentFromPrepared(state, connection_handle) ==
    [tag |-> "PresentationSent",
     presentation_request |-> state.presentation_request,
     presentation |-> state.presentation,
     connection_handle |-> connection_handle]

\* variant: the report of the failed preparation is not kept as the status
FinishedFromFailed_Undefined(state, connection_handle) ==
    [tag |-> "Finished",
     presentation_request |-> state.presentation_request,
     presentation |-> PresentationCreate,
     connection_handle |-> connection_handle,
     status |-> StatusUndefined]

\* From<(PresentationPreparationFailedState, u32)> for FinishedState
FinishedFromFailed(state, connection_handle) ==
    [tag |-> "Finished",
     presentation_request |-> state.presentation_request,
     presentation |-> PresentationCreate,
     connection_handle |-> connection_handle,
     status |-> StatusFailed(state.problem_report)]

\* mutant: the final status follows the status the ack carries
FinishedFromAck_ByAckStatus(state, ack) ==
    [tag |-> "Finished",
     connection_handle |-> state.connection_handle,
     presentation_request |-> state.presentation_request,
     presentation |-> state.presentation,
     status |-> IF ack.status = "OK" THEN StatusSuccess
                ELSE StatusFailed(ProblemReportCreate)]

\* From<(PresentationSentState, Ack)> for FinishedState
FinishedFromAck(state, ack) ==
    [tag |-> "Finished",
     connection_handle |-> state.connection_handle,
     presentation_request |-> state.presentation_request,
     presentation |-> state.presentation,
     status |-> StatusSuccess]

\* mutant: the connection handle is left at its default
FinishedFromReport_DefaultHandle(state, problem_report) ==
    [tag |-> "Finished",
     connection_handle |-> 0,
     presentation_request |-> state.presentation_request,
     presentation |-> state.presentation,
     status |-> StatusFailed(problem_report)]

\* From<(PresentationSentState, ProblemReport)> for FinishedState
FinishedFromReport(state, problem_report) ==
    [tag |-> "Finished",
     connection_handle |-> state.connection_handle,
     presentation_request |-> state.presentation_request,
     presentation |-> state.presentation,
     status |-> StatusFailed(problem_report)]

----------------------------------------------------------------------------
(* InitialState::build_presentation.  The attachment's content() is read   *)
(* first, then the proof is generated, then the presentation is built;     *)
(* the first failure is returned.                                          *)

Ok(v) == [ok |-> TRUE, val |-> v]
Err(e) == [ok |-> FALSE, err |-> e]

generate_indy_proof(credentials, self_attested_attrs, content) ==
    [credentials |-> credentials, self_attested_attrs |-> self_attested_attrs,
     request |-> content]

build_presentation(state, credentials, self_attested_attrs, env) ==
    IF env.content # "Ok" THEN Err(env.content)
    ELSE IF env.proof # "Ok" THEN Err(env.proof)
    ELSE IF env.attach # "Ok" THEN Err(env.attach)
    ELSE Ok([thread |-> [thid |-> Some(state.presentation_request.id)],
             presentations_attach |->
                 Some(generate_indy_proof(credentials, self_attested_attrs,
                          state.presentation_request.request_presentations_attach))])

----------------------------------------------------------------------------
(* ProverSM::step, one operator per arm of the match on the state.  A      *)
(* result is [ok, state | err, fx]: fx is the calls made to the            *)
(* connection handler, in the order they were made.                        *)

SendCall(h, msg, outcome) ==
    [op |-> "send_message", connection_handle |-> h, msg |-> msg,
     ok |-> outcome = "Ok"]
RemoveCall(h, id, outcome) ==
    [op |-> "remove_pending_message", connection_handle |-> h, msg |-> id,
     ok |-> outcome = "Ok"]

\* two calls are the same call with the same arguments and outcome
SameCall(a, b) == a.op = b.op /\ a = b

StepOk(state, fx) == [ok |-> TRUE, state |-> state, fx |-> fx]
StepErr(err, fx) == [ok |-> FALSE, err |-> err, fx |-> fx]

\* mutant: the failure of build_presentation is returned with ?
StepInitiated_PropagatesError(state, message, env) ==
    IF message.type = "PreparePresentation"
    THEN LET built == build_presentation(state, message.credentials,
                                         message.self_attested_attrs, env)
         IN IF built.ok
            THEN StepOk(PreparedFromInitial(state, built.val), <<>>)
            ELSE StepErr(built.err, <<>>)
    ELSE StepOk(state, <<>>)

StepInitiated(state, message, env) ==
    IF message.type = "PreparePresentation"
    THEN LET built == build_presentation(state, message.credentials,
                                         message.self_attested_attrs, env)
         IN IF built.ok
            THEN StepOk(PreparedFromInitial(state, built.val), <<>>)
            ELSE LET problem_report ==
                         [comment |-> Some(built.err),
                          thread |-> [thid |-> Some(state.presentation_request.id)]]
                 IN StepOk(FailedFromInitial(state, problem_report), <<>>)
    ELSE StepOk(state, <<>>)

\* mutant: the pending marker is removed before the presentation is sent
StepPrepared_RemoveFirst(state, message, env) ==
    IF message.type = "SendPresentation"
    THEN LET h == message.connection_handle
             send == SendCall(h, PresentationToA2A(state.presentation), env.send)
             remove == RemoveCall(h, state.presentation_request.id, env.remove)
         IN IF ~remove.ok THEN StepErr(env.remove, <<remove>>)
            ELSE IF ~send.ok THEN StepErr(env.send, <<remove, send>>)
            ELSE StepOk(SentFromPrepared(state, h), <<remove, send>>)
    ELSE StepOk(state, <<>>)

\* mutant: the result of send_message is dropped
StepPrepared_IgnoresSendError(state, message, env) ==
    IF message.type = "SendPresentation"
    THEN LET h == message.connection_handle
             send == SendCall(h, PresentationToA2A(state.presentation), env.send)
             remove == RemoveCall(h, state.presentation_request.id, env.remove)
         IN IF ~remove.ok THEN StepErr(env.remove, <<send, remove>>)
            ELSE StepOk(SentFromPrepared(state, h), <<send, remove>>)
    ELSE StepOk(state, <<>>)

StepPrepared(state, message, env) ==
    IF message.type = "SendPresentation"
    THEN LET h == message.connection_handle
             send == SendCall(h, PresentationToA2A(state.presentation), env.send)
             remove == RemoveCall(h, state.presentation_request.id, env.remove)
         IN IF ~send.ok THEN StepErr(env.send, <<send>>)
            ELSE IF ~remove.ok THEN StepErr(env.remove, <<send, remove>>)
            ELSE StepOk(SentFromPrepared(state, h), <<send, remove>>)
    ELSE StepOk(state, <<>>)

\* mutant: a fresh problem report is sent instead of the one the state holds
StepFailed_SendsDefaultReport(state, message, env) ==
    IF message.type = "SendPresentation"
    THEN LET h == message.connection_handle
             send == SendCall(h, ProblemReportToA2A(ProblemReportCreate), env.send)
         IN IF ~send.ok THEN StepErr(env.send, <<send>>)
            ELSE StepOk(FinishedFromFailed(state, h), <<send>>)
    ELSE StepOk(state, <<>>)

\* mutant: PreparePresentation is tried again after a failed preparation
StepFailed_PreparesAgain(state, message, env) ==
    IF message.type = "SendPresentation"
    THEN LET h == message.connection_handle
             send == SendCall(h, ProblemReportToA2A(state.problem_report), env.send)
         IN IF ~send.ok THEN StepErr(env.send, <<send>>)
            ELSE StepOk(FinishedFromFailed(state, h), <<send>>)
    ELSE IF message.type = "PreparePresentation"
    THEN LET built == build_presentation(state, message.credentials,
                                         message.self_attested_attrs, env)
         IN IF built.ok
            THEN StepOk(PreparedFromInitial(state, built.val), <<>>)
            ELSE StepOk(state, <<>>)
    ELSE StepOk(state, <<>>)

\* mutant: the arm for SendPresentation is missing
StepFailed_IgnoresSend(state, message, env) == StepOk(state, <<>>)

StepFailed(state, message, env) ==
    IF message.type = "SendPresentation"
    THEN LET h == message.connection_handle
             send == SendCall(h, ProblemReportToA2A(state.problem_report), env.send)
         IN IF ~send.ok THEN StepErr(env.send, <<send>>)
            ELSE StepOk(FinishedFromFailed(state, h), <<send>>)
    ELSE StepOk(state, <<>>)

\* mutant: SendPresentation in PresentationSent sends the presentation again
StepSent_Resends(state, message, env) ==
    IF message.type = "PresentationAckReceived"
    THEN StepOk(FinishedFromAck(state, message.ack), <<>>)
    ELSE IF message.type = "PresentationRejectReceived"
    THEN StepOk(FinishedFromReport(state, message.problem_report), <<>>)
    ELSE IF message.type = "SendPresentation"
    THEN LET h == message.connection_handle
             send == SendCall(h, PresentationToA2A(state.presentation), env.send)
         IN IF ~send.ok THEN StepErr(env.send, <<send>>)
            ELSE StepOk(SentFromPrepared(state, h), <<send>>)
    ELSE StepOk(state, <<>>)

StepSent(state, message, env) ==
    IF message.type = "PresentationAckReceived"
    THEN StepOk(FinishedFromAck(state, message.ack), <<>>)
    ELSE IF message.type = "PresentationRejectReceived"
    THEN StepOk(FinishedFromReport(state, message.problem_report), <<>>)
    ELSE StepOk(state, <<>>)

\* mutant: a problem report received in Finished replaces the status
StepFinished_Reprocesses(state, message, env) ==
    IF message.type = "PresentationRejectReceived"
    THEN StepOk(FinishedFromReport(state, message.problem_report), <<>>)
    ELSE StepOk(state, <<>>)

StepFinished(state, message, env) == StepOk(state, <<>>)

\* ProverSM::step: Ok(ProverSM { source_id, state }) or the error
step(self, message, env) ==
    LET state == self.state
        r == CASE state.tag = "Initiated" -> StepInitiated(state, message, env)
               [] state.tag = "PresentationPrepared" -> StepPrepared(state, message, env)
               [] state.tag = "PresentationPreparationFailed" ->
                      StepFailed(state, message, env)
               [] state.tag = "PresentationSent" -> StepSent(state, message, env)
               [] state.tag = "Finished" -> StepFinished(state, message, env)
    IN IF r.ok
       THEN [ok |-> TRUE, sm |-> [source_id |-> self.source_id, state |-> r.state],
             fx |-> r.fx]
       ELSE [ok |-> FALSE, err |-> r.err, fx |-> r.fx]

----------------------------------------------------------------------------
(* Queries *)

source_id(self) == self.source_id

presentation_request(self) == self.state.presentation_request

thread_id(self) == presentation_request(self).id

presentation_status(self) ==
    IF self.state.tag = "Finished" THEN code(self.state.status)
    ELSE code(StatusUndefined)

connection_handle(self) ==
    IF self.state.tag \in {"PresentationSent", "Finished"}
    THEN Ok(self.state.connection_handle)
    ELSE Err("NotReady")

\* variant: the presentation is given out only until it is sent
presentation_OnlyWhenPrepared(self) ==
    IF self.state.tag = "PresentationPrepared"
    THEN Ok(self.state.presentation)
    ELSE Err("NotReady")

presentation(self) ==
    IF self.state.tag \in {"PresentationPrepared", "PresentationSent", "Finished"}
    THEN Ok(self.state.presentation)
    ELSE Err("NotReady")

\* variant: a prepared presentation already counts as sent
state_PreparedIsOfferSent(self) ==
    CASE self.state.tag = "Initiated" -> "VcxStateInitialized"
      [] self.state.tag = "PresentationPrepared" -> "VcxStateOfferSent"
      [] self.state.tag = "PresentationPreparationFailed" -> "VcxStateInitialized"
      [] self.state.tag = "PresentationSent" -> "VcxStateOfferSent"
      [] self.state.tag = "Finished" -> "VcxStateAccepted"

\* state(): the external state code, by its name
state(self) ==
    CASE self.state.tag = "Initiated" -> "VcxStateInitialized"
      [] self.state.tag = "PresentationPrepared" -> "VcxStateInitialized"
      [] self.state.tag = "PresentationPreparationFailed" -> "VcxStateInitialized"
      [] self.state.tag = "PresentationSent" -> "VcxStateOfferSent"
      [] self.state.tag = "Finished" -> "VcxStateAccepted"

has_transitions(self) ==
    CASE self.state.tag = "Initiated" -> FALSE
      [] self.state.tag = "Finished" -> FALSE
      [] OTHER -> TRUE

\* variant: every Ack and every CommonProblemReport is taken, whatever its thread
Handled_AnyThread(self, message) ==
    message.type \in {"Ack", "CommonProblemReport"}

\* the arms of the match on the message in PresentationSent: the message is
\* returned when it is an Ack or a CommonProblemReport replying to the thread
Handled(self, message) ==
    \/ /\ message.type = "Ack"
       /\ is_reply(message.body.thread, thread_id(self))
    \/ /\ message.type = "CommonProblemReport"
       /\ is_reply(message.body.thread, thread_id(self))

\* the first entry of the iteration that is handled
FirstHandled(self, messages) ==
    LET hits == {i \in 1..Len(messages) : Handled(self, messages[i].message)}
    IN IF hits = {} THEN None
       ELSE Some(messages[CHOOSE i \in hits : \A j \in hits : i <= j])

\* variant: a handled Ack is looked for first, a problem report after it
find_message_to_handle_AckFirst(self, messages) ==
    LET acks == SelectSeq(messages, LAMBDA e : e.message.type = "Ack")
    IN IF self.state.tag # "PresentationSent" THEN None
       ELSE IF FirstHandled(self, acks) # None THEN FirstHandled(self, acks)
       ELSE FirstHandled(self, messages)

\* variant: the messages are matched in every state
find_message_to_handle_EveryState(self, messages) ==
    FirstHandled(self, messages)

\* find_message_to_handle: one loop over the map; only the PresentationSent
\* arm returns from it, every other arm goes on to the next entry
find_message_to_handle(self, messages) ==
    IF self.state.tag = "PresentationSent"
    THEN FirstHandled(self, messages)
    ELSE None

----------------------------------------------------------------------------
(* The driver: it holds one machine, calls step with a command and keeps   *)
(* the machine it had when step returns an error.                          *)

Advance(self, r) == IF r.ok THEN r.sm ELSE self

NoCommand == [type |-> "None"]

Succeeded(call) == call.ok

\* the machine is as ProverSM::new built it
Constructed == [from |-> "new", by |-> "new"]

\* no call of find_message_to_handle is waiting to be dispatched
NoQuery == [asked |-> FALSE]

\* no message was downloaded or decrypted yet
NoDownload == [op |-> "none"]

Init ==
    /\ \E request \in PresentationRequests, sid \in SourceIds :
          /\ given = [presentation_request |-> request, source_id |-> sid]
          /\ sm = new(request, sid)
          /\ last = [cmd |-> NoCommand, env |-> NoEnv, pre |-> new(request, sid),
                     res |-> [ok |-> TRUE, sm |-> new(request, sid), fx |-> <<>>]]
    /\ effects = <<>>
    /\ errors = 0
    /\ entry = Constructed
    /\ query = NoQuery
    /\ dl = NoDownload

\* the machine the driver holds after the step is in a different variant:
\* the variant it left and the command that moved it; otherwise the entry
\* it had
Entered(next, message) ==
    IF next.state.tag # sm.state.tag
    THEN [from |-> sm.state.tag, by |-> message.type]
    ELSE entry

\* the calls of a step that took effect
TookEffect(r) == SelectSeq(r.fx, Succeeded)

\* the number of calls of step that returned an error, this one included
Failures(r) == IF r.ok THEN errors ELSE errors + 1

\* a call may fail only while fewer than MaxErrors calls have failed
MayFail(r) == r.ok \/ errors < MaxErrors

PreparePresentation ==
    \E message \in PreparePresentationCmds, env \in BuildEnvs :
        \E r \in {step(sm, message, env)} :
           /\ MayFail(r)
           /\ sm' = Advance(sm, r)
           /\ effects' = effects \o TookEffect(r)
           /\ errors' = Failures(r)
           /\ last' = [cmd |-> message, env |-> env, pre |-> sm, res |-> r]
           /\ entry' = Entered(sm', message)
           /\ UNCHANGED <<given, query, dl>>

SendPresentation ==
    \E message \in SendPresentationCmds, env \in SendEnvs :
        \E r \in {step(sm, message, env)} :
           /\ MayFail(r)
           /\ sm' = Advance(sm, r)
           /\ effects' = effects \o TookEffect(r)
           /\ errors' = Failures(r)
           /\ last' = [cmd |-> message, env |-> env, pre |-> sm, res |-> r]
           /\ entry' = Entered(sm', message)
           /\ UNCHANGED <<given, query, dl>>

PresentationAckReceived ==
    \E message \in AckCmds :
        \E r \in {step(sm, message, NoEnv)} :
           /\ MayFail(r)
           /\ sm' = Advance(sm, r)
           /\ effects' = effects \o TookEffect(r)
           /\ errors' = Failures(r)
           /\ last' = [cmd |-> message, env |-> NoEnv, pre |-> sm, res |-> r]
           /\ entry' = Entered(sm', message)
           /\ UNCHANGED <<given, query, dl>>

PresentationRejectReceived ==
    \E message \in RejectCmds :
        \E r \in {step(sm, message, NoEnv)} :
           /\ MayFail(r)
           /\ sm' = Advance(sm, r)
           /\ effects' = effects \o TookEffect(r)
           /\ errors' = Failures(r)
           /\ last' = [cmd |-> message, env |-> NoEnv, pre |-> sm, res |-> r]
           /\ entry' = Entered(sm', message)
           /\ UNCHANGED <<given, query, dl>>

PresentationProposalReceived ==
    \E message \in ProposalCmds :
        \E r \in {step(sm, message, NoEnv)} :
           /\ MayFail(r)
           /\ sm' = Advance(sm, r)
           /\ effects' = effects \o TookEffect(r)
           /\ errors' = Failures(r)
           /\ last' = [cmd |-> message, env |-> NoEnv, pre |-> sm, res |-> r]
           /\ entry' = Entered(sm', message)
           /\ UNCHANGED <<given, query, dl>>

Next ==
    \/ PreparePresentation
    \/ SendPresentation
    \/ PresentationAckReceived
    \/ PresentationRejectReceived
    \/ PresentationProposalReceived

Spec == Init /\ [][Next]_vars

\* the transport delivers: SendPresentation with every call succeeding
SendDelivered ==
    \E message \in SendPresentationCmds :
        \E r \in {step(sm, message, NoEnv)} :
           /\ MayFail(r)
           /\ sm' = Advance(sm, r)
           /\ effects' = effects \o TookEffect(r)
           /\ errors' = Failures(r)
           /\ last' = [cmd |-> message, env |-> NoEnv, pre |-> sm, res |-> r]
           /\ entry' = Entered(sm', message)
           /\ UNCHANGED <<given, query, dl>>

\* Send is issued again and again and the transport eventually succeeds
LiveSpec == Init /\ [][Next]_vars /\ WF_vars(SendDelivered)

----------------------------------------------------------------------------
(* The inbound dispatch: between two commands the machine is asked which   *)
(* message of a map of candidates it handles.  The map and the answer are  *)
(* kept in "query" until the call has returned.                            *)

\* a command that step accepts moves the machine on
Command ==
    /\ ~query.asked
    /\ \E message \in ProverMessages, env \in BuildEnvs \cup SendEnvs :
          LET r == step(sm, message, env)
          IN /\ r.ok
             /\ sm' = r.sm
             /\ entry' = Entered(sm', message)
    /\ UNCHANGED <<given, effects, errors, last, query, dl>>

\* find_message_to_handle(&self, messages): the machine is only read
FindMessageToHandle ==
    /\ ~query.asked
    /\ \E messages \in MessageMaps(MaxMessages) :
          query' = [asked |-> TRUE, self |-> sm, messages |-> messages,
                    res |-> find_message_to_handle(sm, messages)]
    /\ UNCHANGED <<sm, given, effects, errors, last, entry, dl>>

\* the call has returned: the map it consumed and its answer are gone
Returned ==
    /\ query.asked
    /\ query' = NoQuery
    /\ UNCHANGED <<sm, given, effects, errors, last, entry, dl>>

QueryNext ==
    \/ Command
    \/ FindMessageToHandle
    \/ Returned

QuerySpec == Init /\ [][QueryNext]_vars

----------------------------------------------------------------------------
(* The agency inbox (agency_vcx/get_message.rs, messages/payload.rs).      *)
(*                                                                         *)
(* An encrypted payload is modelled by what the wallet finds in it: whether*)
(* unpack_message opens it, and the text of the "message" field it holds.  *)
(* JSON text is a record [json |-> value].                                 *)

MaxBundles == 2
MaxPerBundle == 2

PairwiseDids == {"did1", "did2"}
Verkeys == {"vk1", "vk2"}
UnpackErrors == {"UnpackFailed"}
VerkeyErrors == {"VerkeyNotFound"}

\* serde_json::to_string and json!(null)
to_string(value) == [json |-> value]
JsonNull == [null |-> TRUE]

\* let p = e in F(p): the value of F at e, with e worked out once
Bind(F(_), e) == CHOOSE r \in {F(p) : p \in {e}} : TRUE

\* a JSON value is a record: [string |-> s] for a string, [number |-> n] for
\* a number, JsonNull for null; Value::as_str
JsonString(s) == [string |-> s]
as_str(value) == IF "string" \in DOMAIN value THEN Some(value.string) ELSE None

\* enum MessageStatusCode
MessageStatusCodes ==
    {"Created", "Sent", "Received", "Accepted", "Rejected", "Reviewed", "Redirected"}

\* variant: Accepted and Rejected share a literal
MessageStatusCode_to_string_Shared(self) ==
    CASE self = "Created" -> "MS-101"
      [] self = "Sent" -> "MS-102"
      [] self = "Received" -> "MS-103"
      [] self = "Accepted" -> "MS-104"
      [] self = "Rejected" -> "MS-104"
      [] self = "Reviewed" -> "MS-106"
      [] self = "Redirected" -> "MS-107"

\* impl ToString for MessageStatusCode
MessageStatusCode_to_string(self) ==
    CASE self = "Created" -> "MS-101"
      [] self = "Sent" -> "MS-102"
      [] self = "Received" -> "MS-103"
      [] self = "Accepted" -> "MS-104"
      [] self = "Rejected" -> "MS-105"
      [] self = "Reviewed" -> "MS-106"
      [] self = "Redirected" -> "MS-107"

\* impl Serialize for MessageStatusCode
MessageStatusCode_serialize(self) == JsonString(MessageStatusCode_to_string(self))

\* impl Deserialize for MessageStatusCode
MessageStatusCode_deserialize(value) ==
    LET s == as_str(value)
    IN CASE s = Some("MS-101") -> Ok("Created")
         [] s = Some("MS-102") -> Ok("Sent")
         [] s = Some("MS-103") -> Ok("Received")
         [] s = Some("MS-104") -> Ok("Accepted")
         [] s = Some("MS-105") -> Ok("Rejected")
         [] s = Some("MS-106") -> Ok("Reviewed")
         [] s = Some("MS-107") -> Ok("Redirected")
         [] OTHER -> Err("Unexpected message type.")

\* _parse_status_code: each string is read as a JSON string and decoded; the
\* first failure fails the list with InvalidJson
parse_status_code(status_codes) ==
    IF status_codes = None THEN Ok(None)
    ELSE LET codes == [i \in 1..Len(status_codes[1]) |->
                          MessageStatusCode_deserialize(JsonString(status_codes[1][i]))]
         IN IF \E i \in 1..Len(codes) : ~codes[i].ok
            THEN Err("InvalidJson")
            ELSE Ok(Some([i \in 1..Len(codes) |-> codes[i].val]))

\* enum RemoteMessageType: a tag, and for Other the string it carries
RemoteTags ==
    {"ConnReq", "ConnReqAnswer", "ConnReqRedirect", "CredOffer", "CredReq",
     "Cred", "ProofReq", "Proof"}
Other(s) == [tag |-> "Other", of |-> s]
Known(tag) == [tag |-> tag]

\* impl Serialize for RemoteMessageType
RemoteMessageType_serialize(self) ==
    JsonString(CASE self.tag = "ConnReq" -> "connReq"
                 [] self.tag = "ConnReqAnswer" -> "connReqAnswer"
                 [] self.tag = "ConnReqRedirect" -> "connReqRedirect"
                 [] self.tag = "CredOffer" -> "credOffer"
                 [] self.tag = "CredReq" -> "credReq"
                 [] self.tag = "Cred" -> "cred"
                 [] self.tag = "ProofReq" -> "proofReq"
                 [] self.tag = "Proof" -> "proof"
                 [] self.tag = "Other" -> self.of)

\* variant: the aliases are not known and decode to Other
RemoteMessageType_deserialize_NoAliases(value) ==
    LET s == as_str(value)
    IN CASE s = Some("connReq") -> Ok(Known("ConnReq"))
         [] s = Some("connReqAnswer") -> Ok(Known("ConnReqAnswer"))
         [] s = Some("connReqRedirect") -> Ok(Known("ConnReqRedirect"))
         [] s = Some("credOffer") -> Ok(Known("CredOffer"))
         [] s = Some("credReq") -> Ok(Known("CredReq"))
         [] s = Some("cred") -> Ok(Known("Cred"))
         [] s = Some("proofReq") -> Ok(Known("ProofReq"))
         [] s = Some("proof") -> Ok(Known("Proof"))
         [] s # None -> Ok(Other(s[1]))
         [] OTHER -> Err("Unexpected message type.")

\* impl Deserialize for RemoteMessageType: the arms in their order
RemoteMessageType_deserialize(value) ==
    LET s == as_str(value)
    IN CASE s = Some("connReq") -> Ok(Known("ConnReq"))
         [] s \in {Some("connReqAnswer"), Some("CONN_REQ_ACCEPTED")} ->
                Ok(Known("ConnReqAnswer"))
         [] s \in {Some("connReqRedirect"), Some("CONN_REQ_REDIRECTED"),
                   Some("connReqRedirected")} ->
                Ok(Known("ConnReqRedirect"))
         [] s = Some("credOffer") -> Ok(Known("CredOffer"))
         [] s = Some("credReq") -> Ok(Known("CredReq"))
         [] s = Some("cred") -> Ok(Known("Cred"))
         [] s = Some("proofReq") -> Ok(Known("ProofReq"))
         [] s = Some("proof") -> Ok(Known("Proof"))
         [] s # None -> Ok(Other(s[1]))
         [] OTHER -> Err("Unexpected message type.")

\* the text found in the "message" field of an unpacked payload: a PayloadV2,
\* with or without thid; an aries message; text that is neither.  "a2a" is
\* the variant the text deserializes to as an aries A2AMessage, if it does.
PayloadV2Texts ==
    [kind : {"PayloadV2"}, id : {"id"}, msg : {"msg"},
     thid : {None, Some("thid")}, a2a : {None, Some("Generic")}]
AriesTexts ==
    [kind : {"Aries"},
     a2a : {Some(t) : t \in {"PresentationRequest", "CredentialOffer",
                             "Credential", "Presentation", "Ack"}}]
OtherTexts == {[kind |-> "Other", a2a |-> None]}

\* MessagePayload::V2(json)
MessagePayloads ==
    [unpacks : {TRUE}, message : PayloadV2Texts \cup AriesTexts \cup OtherTexts]
        \cup [unpacks : {FALSE}, message : OtherTexts]

\* struct Message
Message(uid, payload, decrypted_payload) ==
    [status_code |-> "Received", payload |-> payload, sender_did |-> "sender",
     uid |-> uid, msg_type |-> Known("ProofReq"), ref_msg_id |-> None,
     delivery_details |-> <<>>, decrypted_payload |-> decrypted_payload]

\* Payloads::decrypt_payload_v2: the verkey is not used, the wallet unpacks
decrypt_payload_v2(my_vk, payload) ==
    IF ~payload.unpacks THEN Err("UnpackFailed")
    ELSE IF payload.message.kind # "PayloadV2" THEN Err("InvalidJson")
    ELSE Ok([type_ |-> "PayloadTypeV2",
             id |-> payload.message.id,
             msg |-> payload.message.msg,
             thread |-> [thid |-> IF payload.message.thid = None
                                  THEN Some(payload.message.id)
                                  ELSE payload.message.thid]])

\* EncryptionEnvelope::open: unpacks and deserializes an aries A2AMessage
EncryptionEnvelopeOpen(payload) ==
    IF ~payload.unpacks THEN Err("UnpackFailed")
    ELSE IF payload.message.a2a = None THEN Err("InvalidJson")
    ELSE Ok(payload.message.a2a[1])

\* enum ProtocolTypes: the protocol type the process is configured with
ProtocolTypes == {"V1", "V2", "V3", "V4"}

\* PayloadKinds::name: one table for protocol type V1, one for the others
name(protocol_type, kind) ==
    IF protocol_type = "V1"
    THEN CASE kind = "CredOffer" -> "CRED_OFFER"
           [] kind = "CredReq" -> "CRED_REQ"
           [] kind = "Cred" -> "CRED"
           [] kind = "ProofRequest" -> "PROOF_REQUEST"
           [] kind = "Proof" -> "PROOF"
           [] OTHER -> kind
    ELSE CASE kind = "CredOffer" -> "credential-offer"
           [] kind = "CredReq" -> "credential-request"
           [] kind = "Cred" -> "credential"
           [] kind = "ProofRequest" -> "presentation-request"
           [] kind = "Proof" -> "presentation"
           [] OTHER -> kind

\* PayloadTypes::build_v1; the messages are downloaded by a process of
\* protocol type V3, whose names V2 and V4 share
build_v1(kind, fmt) == [name |-> name("V3", kind), ver |-> "1.0", fmt |-> fmt]

\* Message::payload()
payload(self) ==
    IF self.payload = None THEN Err("InvalidState") ELSE Ok(self.payload[1])

\* Message::_decrypt_v3_message
decrypt_v3_message(self) ==
    LET bytes == payload(self)
        a2a_message == EncryptionEnvelopeOpen(bytes.val)
        kind == CASE a2a_message.val = "PresentationRequest" -> "ProofRequest"
                  [] a2a_message.val = "CredentialOffer" -> "CredOffer"
                  [] a2a_message.val = "Credential" -> "Cred"
                  [] a2a_message.val = "Presentation" -> "Proof"
                  [] OTHER -> "aries"
    IN IF ~bytes.ok THEN bytes
       ELSE IF ~a2a_message.ok THEN a2a_message
       ELSE Ok([type_ |-> build_v1(kind, "json"),
                msg |-> to_string(a2a_message.val)])

\* the record decrypt returns for a message that carries a payload, given the
\* results of the two decode paths, and the paths it went through
Decrypted(self, v2, v3) ==
    IF v2.ok
    THEN [message |-> [self EXCEPT !.decrypted_payload = Some(to_string(v2.val)),
                                   !.payload = None],
          calls |-> <<"decrypt_payload_v2">>]
    ELSE IF v3.ok
    THEN [message |-> [self EXCEPT !.decrypted_payload = Some(to_string(v3.val)),
                                   !.payload = None],
          calls |-> <<"decrypt_payload_v2", "_decrypt_v3_message">>]
    ELSE [message |-> [self EXCEPT !.decrypted_payload = Some(to_string(JsonNull)),
                                   !.payload = None],
          calls |-> <<"decrypt_payload_v2", "_decrypt_v3_message">>]

\* variant: the encrypted payload stays in the record
decrypt_KeepsPayload(self, vk) ==
    IF self.payload = None
    THEN [message |-> self, calls |-> <<>>]
    ELSE [message |->
              [Decrypted(self, decrypt_payload_v2(vk, self.payload[1]),
                         decrypt_v3_message(self)).message
                  EXCEPT !.payload = self.payload],
          calls |-> Decrypted(self, decrypt_payload_v2(vk, self.payload[1]),
                              decrypt_v3_message(self)).calls]

\* variant: the envelope is opened first, decrypt_payload_v2 after it
decrypt_V3First(self, vk) ==
    LET v2 == decrypt_payload_v2(vk, self.payload[1])
        v3 == decrypt_v3_message(self)
    IN IF self.payload = None
       THEN [message |-> [self EXCEPT !.payload = None], calls |-> <<>>]
       ELSE IF v3.ok
       THEN [message |-> [self EXCEPT !.decrypted_payload = Some(to_string(v3.val)),
                                      !.payload = None],
             calls |-> <<"_decrypt_v3_message">>]
       ELSE [message |-> Decrypted(self, v2, v3).message,
             calls |-> <<"_decrypt_v3_message", "decrypt_payload_v2">>]

\* Message::decrypt: the record it returns and, in "calls", the decode paths
\* it went through, in order
decrypt(self, vk) ==
    IF self.payload = None
    THEN [message |-> [self EXCEPT !.payload = None], calls |-> <<>>]
    ELSE Decrypted(self, decrypt_payload_v2(vk, self.payload[1]),
                   decrypt_v3_message(self))

\* what signus::get_local_verkey answers for each pairwise DID
Wallets == [PairwiseDids -> {Ok(vk) : vk \in Verkeys} \cup {Err(e) : e \in VerkeyErrors}]
get_local_verkey(wallet, did) == wallet[did]

\* the bytes of an HTTP response: nothing, bytes the wallet cannot unpack, or
\* a packed wire message
EmptyBody == [bytes |-> "empty"]
GarbageBody == [bytes |-> "garbage"]
Packed(message) == [bytes |-> "packed", message |-> message]

\* the derived Serialize of struct Message: the status code and the type go
\* out as their literals, decrypted_payload only when it is there
Message_serialize(self) ==
    [status_code |-> MessageStatusCode_to_string(self.status_code),
     payload |-> self.payload, sender_did |-> self.sender_did, uid |-> self.uid,
     msg_type |-> RemoteMessageType_serialize(self.msg_type).string,
     ref_msg_id |-> self.ref_msg_id, delivery_details |-> self.delivery_details]
    @@ (IF self.decrypted_payload = None THEN [f \in {} |-> f]
        ELSE "decrypted_payload" :> self.decrypted_payload)

\* the derived Deserialize of struct Message: delivery_details is skipped and
\* starts empty, a missing Option is None, another missing field is an error
Message_deserialize(value) ==
    IF ~({"status_code", "sender_did", "uid", "msg_type"} \subseteq DOMAIN value)
    THEN Err("missing field")
    ELSE
    LET status_code == MessageStatusCode_deserialize(JsonString(value.status_code))
        msg_type == RemoteMessageType_deserialize(JsonString(value.msg_type))
    IN IF ~status_code.ok THEN status_code
       ELSE IF ~msg_type.ok THEN msg_type
       ELSE Ok([status_code |-> status_code.val,
                payload |-> IF "payload" \in DOMAIN value
                            THEN value.payload ELSE None,
                sender_did |-> value.sender_did, uid |-> value.uid,
                msg_type |-> msg_type.val,
                ref_msg_id |-> IF "ref_msg_id" \in DOMAIN value
                               THEN value.ref_msg_id ELSE None,
                delivery_details |-> <<>>,
                decrypted_payload |-> IF "decrypted_payload" \in DOMAIN value
                                      THEN value.decrypted_payload ELSE None])

\* a vector of records, each through the same codec
SerializeAll(msgs) == [i \in 1..Len(msgs) |-> Message_serialize(msgs[i])]
DeserializeAll(values) ==
    LET each == [i \in 1..Len(values) |-> Message_deserialize(values[i])]
    IN IF \E i \in 1..Len(each) : ~each[i].ok THEN Err("invalid message")
       ELSE Ok([i \in 1..Len(each) |-> each[i].val])

\* the @type.type tokens the deserializer of A2AMessageV2 knows
Tokens ==
    {"FWD", "CONNECT", "CONNECTED", "SIGNUP", "SIGNED_UP", "CREATE_AGENT",
     "AGENT_CREATED", "CREATE_KEY", "KEY_CREATED", "GET_MSGS", "MSGS",
     "GET_MSGS_BY_CONNS", "MSGS_BY_CONNS", "SEND_REMOTE_MSG", "REMOTE_MSG_SENT",
     "UPDATE_CONN_STATUS", "CONN_STATUS_UPDATED", "UPDATE_MSG_STATUS_BY_CONNS",
     "MSG_STATUS_UPDATED_BY_CONNS", "UPDATE_CONFIGS", "CONFIGS_UPDATED",
     "UPDATE_COM_METHOD", "COM_METHOD_UPDATED"}

\* the variant each arm of the match builds
Variant(token) ==
    CASE token = "FWD" -> "Forward"
      [] token = "CONNECT" -> "Connect"
      [] token = "CONNECTED" -> "ConnectResponse"
      [] token = "SIGNUP" -> "SignUp"
      [] token = "SIGNED_UP" -> "SignUpResponse"
      [] token = "CREATE_AGENT" -> "CreateAgent"
      [] token = "AGENT_CREATED" -> "CreateAgentResponse"
      [] token = "CREATE_KEY" -> "CreateKey"
      [] token = "KEY_CREATED" -> "CreateKeyResponse"
      [] token = "GET_MSGS" -> "GetMessages"
      [] token = "MSGS" -> "GetMessagesResponse"
      [] token = "GET_MSGS_BY_CONNS" -> "GetMessagesByConnections"
      [] token = "MSGS_BY_CONNS" -> "GetMessagesByConnectionsResponse"
      [] token = "SEND_REMOTE_MSG" -> "SendRemoteMessage"
      [] token = "REMOTE_MSG_SENT" -> "SendRemoteMessageResponse"
      [] token = "UPDATE_CONN_STATUS" -> "UpdateConnection"
      [] token = "CONN_STATUS_UPDATED" -> "UpdateConnectionResponse"
      [] token = "UPDATE_MSG_STATUS_BY_CONNS" -> "UpdateMessageStatusByConnections"
      [] token = "MSG_STATUS_UPDATED_BY_CONNS" ->
             "UpdateMessageStatusByConnectionsResponse"
      [] token = "UPDATE_CONFIGS" -> "UpdateConfigs"
      [] token = "CONFIGS_UPDATED" -> "UpdateConfigsResponse"
      [] token = "UPDATE_COM_METHOD" -> "UpdateComMethod"
      [] token = "COM_METHOD_UPDATED" -> "ComMethodUpdated"

\* the struct a variant of enum A2AMessageV2 carries
Struct(variant) ==
    CASE variant = "Forward" -> "ForwardV2"
      [] variant \in {"GetMessages", "GetMessagesByConnections"} -> "GetMessages"
      [] variant = "GetMessagesByConnectionsResponse" -> "MessagesByConnections"
      [] OTHER -> variant

\* the fields, beside @type, a struct cannot be parsed without: every field
\* of GetMessages is optional and msgsByConns has a default; the structs
\* defined elsewhere stand with one field for their content
Required(struct) ==
    CASE struct = "ForwardV2" -> {"fwd", "msg"}
      [] struct = "GetMessages" -> {}
      [] struct = "GetMessagesResponse" -> {"msgs"}
      [] struct = "MessagesByConnections" -> {}
      [] OTHER -> {"body"}

\* an optional field of a struct, as it is found in a JSON object
Field(value, f) == IF f \in DOMAIN value THEN Some(value[f]) ELSE None
\* and as it is written: left out when None
Written(f, option) == IF option = None THEN [g \in {} |-> g] ELSE f :> option[1]

\* the derived Serialize of the struct inside a variant
Serialized(struct, body) ==
    CASE struct = "GetMessages" ->
             [type |-> body.type]
             @@ Written("exclude_payload", body.exclude_payload)
             @@ Written("uids", body.uids)
             @@ Written("status_codes",
                        IF body.status_codes = None THEN None
                        ELSE Some([i \in 1..Len(body.status_codes[1]) |->
                                      MessageStatusCode_to_string(body.status_codes[1][i])]))
             @@ Written("pairwise_dids", body.pairwise_dids)
      [] struct = "GetMessagesResponse" ->
             [type |-> body.type, msgs |-> SerializeAll(body.msgs)]
      [] struct = "MessagesByConnections" ->
             [type |-> body.type,
              msgsByConns |-> [b \in 1..Len(body.msgs) |->
                           [pairwise_did |-> body.msgs[b].pairwise_did,
                            msgs |-> SerializeAll(body.msgs[b].msgs)]]]
      [] struct = "ForwardV2" ->
             [type |-> body.type, fwd |-> body.fwd, msg |-> body.msg]
      [] OTHER -> [type |-> body.type, body |-> body.body]

\* the derived Deserialize of a struct, from a JSON object with a good @type
Deserialized(struct, value) ==
    IF ~(Required(struct) \subseteq DOMAIN value) THEN Err("missing field")
    ELSE CASE struct = "GetMessages" ->
                  LET codes == parse_status_code(Field(value, "status_codes"))
                  IN IF ~codes.ok THEN Err("invalid status code")
                     ELSE Ok([type |-> value.type,
                              exclude_payload |-> Field(value, "exclude_payload"),
                              uids |-> Field(value, "uids"),
                              status_codes |-> codes.val,
                              pairwise_dids |-> Field(value, "pairwise_dids")])
           [] struct = "GetMessagesResponse" ->
                  LET msgs == DeserializeAll(value.msgs)
                  IN IF ~msgs.ok THEN msgs
                     ELSE Ok([type |-> value.type, msgs |-> msgs.val])
           [] struct = "MessagesByConnections" ->
                  LET conns == IF "msgsByConns" \in DOMAIN value
                               THEN value.msgsByConns ELSE <<>>
                      each == [b \in 1..Len(conns) |->
                                  IF {"pairwise_did", "msgs"} \subseteq DOMAIN conns[b]
                                  THEN DeserializeAll(conns[b].msgs)
                                  ELSE Err("missing field")]
                  IN IF \E b \in 1..Len(each) : ~each[b].ok THEN Err("invalid message")
                     ELSE Ok([type |-> value.type,
                              msgs |-> [b \in 1..Len(conns) |->
                                           [pairwise_did |-> conns[b].pairwise_did,
                                            msgs |-> each[b].val]]])
           [] struct = "ForwardV2" ->
                  Ok([type |-> value.type, fwd |-> value.fwd, msg |-> value.msg])
           [] OTHER -> Ok([type |-> value.type, body |-> value.body])

\* #[serde(untagged)] Serialize of A2AMessageV2: the struct alone goes out
encode(message) == Serialized(Struct(message.variant), message.body)

\* variant: a body its tagged parser rejects is tried as a Forward
decode_FallsBack(value) ==
    IF "type" \notin DOMAIN value THEN Err("invalid @type")
    ELSE IF value.type \notin Tokens THEN Err("Unexpected @type field structure.")
    ELSE LET parsed == Deserialized(Struct(Variant(value.type)), value)
             forward == Deserialized("ForwardV2", value)
         IN IF parsed.ok
            THEN Ok([variant |-> Variant(value.type), body |-> parsed.val])
            ELSE IF forward.ok
            THEN Ok([variant |-> "Forward", body |-> forward.val])
            ELSE parsed

\* impl Deserialize for A2AMessageV2: @type is read first, its type token
\* alone selects the parser of the body
decode(value) ==
    IF "type" \notin DOMAIN value THEN Err("invalid @type")
    ELSE IF value.type \notin Tokens THEN Err("Unexpected @type field structure.")
    ELSE LET parsed == Deserialized(Struct(Variant(value.type)), value)
         IN IF parsed.ok
            THEN Ok([variant |-> Variant(value.type), body |-> parsed.val])
            ELSE parsed

\* A2AMessageV2::GetMessagesByConnectionsResponse / GetMessagesResponse, as
\* the agency writes them
MsgsByConns(msgs) ==
    encode([variant |-> "GetMessagesByConnectionsResponse",
            body |-> [type |-> "MSGS_BY_CONNS", msgs |-> msgs]])
Msgs(msgs) ==
    encode([variant |-> "GetMessagesResponse",
            body |-> [type |-> "MSGS", msgs |-> msgs]])

\* parse_response_from_agency: unpack, then one decoded message; a body that
\* does not decode is InvalidJson
parse_response_from_agency(response) ==
    IF response.bytes # "packed" THEN Err("UnpackFailed")
    ELSE IF ~decode(response.message).ok THEN Err("InvalidJson")
    ELSE Ok(<<decode(response.message).val>>)

\* variant: a message that cannot be decrypted is left out of its bundle
DecryptAll_SkipsFailed(msgs, vk) ==
    LET all == [i \in 1..Len(msgs) |-> decrypt(msgs[i], vk).message]
    IN SelectSeq(all, LAMBDA m : m.decrypted_payload # Some(to_string(JsonNull)))

\* connection.msgs.iter().map(|message| message.decrypt(&vk)).collect()
DecryptAll(msgs, vk) ==
    [i \in 1..Len(msgs) |-> decrypt(msgs[i], vk).message]

\* the closure mapped over the connections: Ok(bundle) or the lookup's error
PerConnection(connection, wallet) ==
    LET vk == get_local_verkey(wallet, connection.pairwise_did)
    IN IF vk.ok
       THEN Ok([pairwise_did |-> connection.pairwise_did,
                msgs |-> DecryptAll(connection.msgs, vk.val)])
       ELSE vk

\* variant: the connections whose verkey is not found are left out
CollectResults_SkipsFailed(results) ==
    Ok([i \in 1..Len(SelectSeq(results, LAMBDA r : r.ok)) |->
            SelectSeq(results, LAMBDA r : r.ok)[i].val])

\* collect() of an iterator of results into a result of a vector: the first
\* error, or every value in order
CollectResults(results) ==
    LET failed == {i \in 1..Len(results) : ~results[i].ok}
    IN IF failed = {}
       THEN Ok([i \in 1..Len(results) |-> results[i].val])
       ELSE results[CHOOSE i \in failed : \A j \in failed : i <= j]

parse_download_messages_response(response, wallet) ==
    Bind(LAMBDA parsed :
             IF ~parsed.ok THEN parsed
             ELSE IF parsed.val[1].variant # "GetMessagesByConnectionsResponse"
             THEN Err("InvalidHttpResponse")
             ELSE CollectResults([i \in 1..Len(parsed.val[1].body.msgs) |->
                                     PerConnection(parsed.val[1].body.msgs[i], wallet)]),
         parse_response_from_agency(response))

\* the outcomes of building the request and of the HTTP POST
DownloadEnvs ==
    [prepare : {"Ok", "InvalidConfiguration"}, post : {"Ok", "PostMessageFailed"}]

\* GetMessagesBuilder::download_messages
\* variant: an empty response is an empty result whatever the mock flag
download_messages_EmptyIsOk(env, mocks, response, wallet) ==
    IF env.prepare # "Ok" THEN Err(env.prepare)
    ELSE IF env.post # "Ok" THEN Err(env.post)
    ELSE IF response.bytes = "empty" THEN Ok(<<>>)
    ELSE parse_download_messages_response(response, wallet)

download_messages(env, mocks, response, wallet) ==
    IF env.prepare # "Ok" THEN Err(env.prepare)
    ELSE IF env.post # "Ok" THEN Err(env.post)
    ELSE IF mocks /\ response.bytes = "empty" THEN Ok(<<>>)
    ELSE parse_download_messages_response(response, wallet)

----------------------------------------------------------------------------
(* The calls into the agency inbox: one message is decrypted, or the       *)
(* messages of every connection are downloaded.  "dl" keeps the input and  *)
(* the result of the call.                                                 *)

\* the messages decrypt is given: with and without a payload, fresh from the
\* agency or already decrypted
DecryptInputs ==
    {Message(<<1, i>>, p, d) :
        i \in 1..MaxPerBundle,
        p \in {None} \cup {Some(x) : x \in MessagePayloads},
        d \in {None, Some(to_string(JsonNull))}}

\* a payload that decrypt_payload_v2 reads and one the wallet cannot unpack
GoodPayload ==
    [unpacks |-> TRUE,
     message |-> [kind |-> "PayloadV2", id |-> "id", msg |-> "msg",
                  thid |-> None, a2a |-> None]]
BadPayload == [unpacks |-> FALSE, message |-> [kind |-> "Other", a2a |-> None]]

\* the connections of a response: for each its DID and the payloads of its
\* messages; the uid of a message is its place in the response
PayloadSeqs(max) == UNION {[1..n -> {GoodPayload, BadPayload}] : n \in 0..max}
Shapes(bundles, perBundle) ==
    UNION {[1..n -> [pairwise_did : PairwiseDids, payloads : PayloadSeqs(perBundle)]] :
               n \in 0..bundles}
Connections(shape) ==
    [b \in 1..Len(shape) |->
        [pairwise_did |-> shape[b].pairwise_did,
         msgs |-> [i \in 1..Len(shape[b].payloads) |->
                      Message(<<b, i>>, Some(shape[b].payloads[i]), None)]]]

DownloadWallets == [PairwiseDids -> {Ok("vk1")} \cup {Err(e) : e \in VerkeyErrors}]
NoDownloadEnv == [prepare |-> "Ok", post |-> "Ok"]

\* every response of connections with every wallet, and every failure of the
\* request, of the POST and of the decoding with a wallet that knows each DID
DownloadInputs(shapes) ==
    {[env |-> NoDownloadEnv, mocks |-> FALSE,
      response |-> Packed(MsgsByConns(Connections(shape))), wallet |-> w] :
        shape \in shapes, w \in DownloadWallets}
    \cup
    {[env |-> e, mocks |-> m, response |-> r,
      wallet |-> [d \in PairwiseDids |-> Ok("vk1")]] :
        e \in DownloadEnvs, m \in BOOLEAN,
        r \in {EmptyBody, GarbageBody, Packed(Msgs(<<>>)), Packed(MsgsByConns(<<>>)),
               Packed(MsgsByConns(Connections(
                   <<[pairwise_did |-> "did1", payloads |-> <<GoodPayload>>]>>)))}}

Decrypt ==
    /\ dl.op = "none"
    /\ \E self \in DecryptInputs, vk \in Verkeys :
          dl' = [op |-> "decrypt", self |-> self, vk |-> vk,
                 res |-> decrypt(self, vk)]
    /\ UNCHANGED <<sm, given, effects, errors, last, entry, query>>

DownloadMessages ==
    /\ dl.op = "none"
    /\ \E in \in DownloadInputs(Shapes(MaxBundles, MaxPerBundle)) :
          dl' = [op |-> "download_messages", in |-> in,
                 res |-> download_messages(in.env, in.mocks, in.response, in.wallet)]
    /\ UNCHANGED <<sm, given, effects, errors, last, entry, query>>

DownloadNext ==
    \/ Decrypt
    \/ DownloadMessages

\* the Prover takes no part: it stays as it was built for one request
DownloadInit == Init /\ given.presentation_request.id = 1

DownloadSpec == DownloadInit /\ [][DownloadNext]_vars

----------------------------------------------------------------------------
(* Payloads::encrypt (messages/payload.rs) and what the receiving side     *)
(* finds in the bytes it produces.                                         *)

PackErrors == {"PackFailed"}
PackOutcomes == {"Ok"} \cup PackErrors

\* enum PayloadKinds; Other(s) is written as the string s
PayloadKinds ==
    {"CredOffer", "CredReq", "Cred", "Proof", "ProofRequest", "other"}

\* PayloadKinds::family
family(kind) ==
    IF kind \in {"CredOffer", "CredReq", "Cred", "Proof", "ProofRequest"}
    THEN [family |-> "CredentialExchange"]
    ELSE [family |-> "Unknown", of |-> kind]

\* MessageFamilies::version: the version token of the family
version(fam) == "1.0"

\* PayloadTypes::build_v2
build_v2(protocol_type, kind) ==
    [did |-> "DID", family |-> family(kind), version |-> version(family(kind)),
     type_ |-> name(protocol_type, kind)]

\* struct Thread, as far as its thid goes
Threads == {[thid |-> None], [thid |-> Some("thid")]}
Data == {"data1", "data2"}

\* crypto::pack_message: the envelope keeps who packed it (no key for an
\* anonymous pack), for whom, and the text inside
pack_message(sender_vk, receiver_keys, msg) ==
    [bytes |-> "packed", sender |-> sender_vk, recipients |-> receiver_keys,
     message |-> msg]

\* the call of pack_message as it is seen from outside
PackCall(sender_vk, receiver_keys, msg) ==
    [op |-> "pack_message", sender |-> sender_vk, recipients |-> receiver_keys,
     message |-> msg]

\* variant: the payload is packed whether or not a thread was given
encrypt_PacksWithoutThread(protocol_type, my_vk, their_vk, data, msg_type, thread, pack) ==
    LET th == IF thread = None THEN [thid |-> None] ELSE thread[1]
        message == to_string([type_ |-> build_v2(protocol_type, msg_type), id |-> "",
                              msg |-> data, thread |-> th])
    IN [res |-> IF thread = None THEN Err("InvalidState")
                ELSE IF pack = "Ok"
                THEN Ok(pack_message(Some(my_vk), <<their_vk>>, message))
                ELSE Err(pack),
        calls |-> <<[op |-> "build_v2", kind |-> msg_type],
                    PackCall(Some(my_vk), <<their_vk>>, message)>>]

\* Payloads::encrypt: its result and, in "calls", what it called on the way;
\* "pack" is the outcome of the wallet's pack_message
encrypt(protocol_type, my_vk, their_vk, data, msg_type, thread, pack) ==
    IF thread = None
    THEN [res |-> Err("InvalidState"), calls |-> <<>>]
    ELSE LET message == to_string([type_ |-> build_v2(protocol_type, msg_type), id |-> "",
                                   msg |-> data, thread |-> thread[1]])
         IN [res |-> IF pack = "Ok"
                     THEN Ok(pack_message(Some(my_vk), <<their_vk>>, message))
                     ELSE Err(pack),
             calls |-> <<[op |-> "build_v2", kind |-> msg_type],
                         PackCall(Some(my_vk), <<their_vk>>, message)>>]

\* the MessagePayload a recipient holds for bytes packed by encrypt: its
\* wallet opens them and the "message" field is the PayloadV2 text
Unpacked(packed) ==
    [unpacks |-> TRUE,
     message |-> [kind |-> "PayloadV2",
                  id |-> packed.message.json.id,
                  msg |-> packed.message.json.msg,
                  thid |-> packed.message.json.thread.thid,
                  a2a |-> None]]

\* the payloads the core itself produces
EncryptedPayloads ==
    {Unpacked(encrypt("V3", my_vk, their_vk, data, msg_type, Some(thread), "Ok").res.val) :
        my_vk \in Verkeys, their_vk \in Verkeys, data \in Data,
        msg_type \in PayloadKinds, thread \in Threads}

Encrypt ==
    /\ dl.op = "none"
    /\ \E protocol_type \in ProtocolTypes, my_vk \in Verkeys, their_vk \in Verkeys,
          data \in Data, msg_type \in PayloadKinds,
          thread \in {None} \cup {Some(t) : t \in Threads},
          pack \in PackOutcomes :
          dl' = [op |-> "encrypt", protocol_type |-> protocol_type,
                 my_vk |-> my_vk, their_vk |-> their_vk,
                 data |-> data, msg_type |-> msg_type, thread |-> thread,
                 out |-> encrypt(protocol_type, my_vk, their_vk, data, msg_type,
                                 thread, pack)]
    /\ UNCHANGED <<sm, given, effects, errors, last, entry, query>>

BuildV2 ==
    /\ dl.op = "none"
    /\ \E protocol_type \in ProtocolTypes, kind \in PayloadKinds :
          dl' = [op |-> "build_v2", protocol_type |-> protocol_type, kind |-> kind,
                 res |-> build_v2(protocol_type, kind)]
    /\ UNCHANGED <<sm, given, effects, errors, last, entry, query>>

DecryptPayloadV2 ==
    /\ dl.op = "none"
    /\ \E my_vk \in Verkeys, p \in MessagePayloads \cup EncryptedPayloads :
          dl' = [op |-> "decrypt_payload_v2", my_vk |-> my_vk, payload |-> p,
                 res |-> decrypt_payload_v2(my_vk, p)]
    /\ UNCHANGED <<sm, given, effects, errors, last, entry, query>>

PayloadNext ==
    \/ BuildV2
    \/ Encrypt
    \/ DecryptPayloadV2

PayloadSpec == DownloadInit /\ [][PayloadNext]_vars

----------------------------------------------------------------------------
(* The requests of the Agency Client (agency_vcx/get_message.rs and the    *)
(* packing in messages/mod.rs).  A step of the building is a record: its   *)
(* result in "res" and, in "calls", the calls it made to the wallet and to *)
(* the transport, in order.                                                *)

\* a step that calls nothing
Pure(r) == [res |-> r, calls |-> <<>>]

\* let x = first?; F(x): an error of the first step ends the building, and
\* the calls of both steps are kept in order
Then(first, F(_)) ==
    Bind(LAMBDA a :
             IF ~a.res.ok THEN a
             ELSE Bind(LAMBDA b : [res |-> b.res, calls |-> a.calls \o b.calls],
                       F(a.res.val)),
         first)

\* variant: an absent slot reads as the empty string
get_config_value_Default(config, key) ==
    IF config[key] = None THEN Ok("") ELSE Ok(config[key][1])

\* settings::get_config_value
get_config_value(config, key) ==
    IF config[key] = None THEN Err("InvalidConfiguration") ELSE Ok(config[key][1])

\* crypto::pack_message with the wallet's keys: an authenticated pack needs
\* the sender's key, an anonymous one needs none
Pack(keys, sender_vk, receiver_keys, msg) ==
    [res |-> IF sender_vk # None /\ sender_vk[1] \notin keys
             THEN Err("PackFailed")
             ELSE Ok(pack_message(sender_vk, receiver_keys, msg)),
     calls |-> <<PackCall(sender_vk, receiver_keys, msg)>>]

\* ForwardV2::new: the bytes must be JSON, packed or not
ForwardV2_new(fwd, msg) ==
    IF "json" \in DOMAIN msg \/ msg.bytes = "packed"
    THEN Ok([variant |-> "Forward",
             body |-> [type |-> "FWD", fwd |-> fwd, msg |-> msg]])
    ELSE Err("InvalidState")

\* prepare_forward_message and prepare_forward_message_for_agency_v2
prepare_forward_message(keys, config, message, did) ==
    Then(Pure(get_config_value(config, "agency_verkey")), LAMBDA agency_vk :
    Then(Pure(ForwardV2_new(did, message)), LAMBDA forward :
         Pack(keys, None, <<agency_vk>>, to_string(encode(forward)))))

\* variant: the message goes to the agency in one anonymous pack
pack_for_agency_v2_Direct(keys, config, message, agency_did) ==
    Then(Pure(get_config_value(config, "agency_verkey")), LAMBDA agency_vk :
         Pack(keys, None, <<agency_vk>>, to_string(encode(message))))

\* prepare_message_for_agency / pack_for_agency_v2
pack_for_agency_v2(keys, config, message, agency_did) ==
    Then(Pure(get_config_value(config, "remote_to_sdk_verkey")), LAMBDA agent_vk :
    Then(Pure(get_config_value(config, "sdk_to_remote_verkey")), LAMBDA my_vk :
    Then(Pack(keys, Some(my_vk), <<agent_vk>>, to_string(encode(message))),
         LAMBDA packed :
             prepare_forward_message(keys, config, packed, agency_did))))

\* variant: the message for the agent is forwarded without its own pack
prepare_message_for_agent_v2_NoInnerPack(keys, config, messages, pw_vk, agent_did, agent_vk) ==
    IF messages = <<>> THEN Pure(Err("SerializationError"))
    ELSE Then(Pure(ForwardV2_new(agent_did, to_string(encode(messages[1])))),
              LAMBDA forward :
    Then(Pure(get_config_value(config, "remote_to_sdk_did")), LAMBDA to_did :
         pack_for_agency_v2(keys, config, forward, to_did)))

\* prepare_message_for_agent / prepare_message_for_agent_v2
prepare_message_for_agent_v2(keys, config, messages, pw_vk, agent_did, agent_vk) ==
    IF messages = <<>> THEN Pure(Err("SerializationError"))
    ELSE Then(Pack(keys, Some(pw_vk), <<agent_vk>>, to_string(encode(messages[1]))),
              LAMBDA packed :
    Then(Pure(ForwardV2_new(agent_did, packed)), LAMBDA forward :
    Then(Pure(get_config_value(config, "remote_to_sdk_did")), LAMBDA to_did :
         pack_for_agency_v2(keys, config, forward, to_did))))

\* A2AMessageV2::GetMessages(GetMessages::build(kind, ..)): the variant is
\* GetMessages whatever the kind, the kind names the @type token
GetMessagesRequest(kind, self) ==
    [variant |-> "GetMessages",
     body |-> [type |-> IF kind = "GetMessagesByConnections"
                        THEN "GET_MSGS_BY_CONNS" ELSE "GET_MSGS",
               exclude_payload |-> self.exclude_payload, uids |-> self.uids,
               status_codes |-> self.status_codes,
               pairwise_dids |-> self.pairwise_dids]]

\* GetMessagesBuilder::prepare_request
prepare_request(keys, config, self) ==
    prepare_message_for_agent_v2(keys, config,
                                 <<GetMessagesRequest("GetMessages", self)>>,
                                 self.to_vk, self.agent_did, self.agent_vk)

\* variant: the request is built as the one for a cloud agent is
prepare_download_request_ViaAgent(keys, config, self) ==
    prepare_message_for_agent_v2(keys, config,
                                 <<GetMessagesRequest("GetMessagesByConnections", self)>>,
                                 self.to_vk, self.agent_did, self.agent_vk)

\* GetMessagesBuilder::prepare_download_request
prepare_download_request(keys, config, self) ==
    Then(Pure(get_config_value(config, "remote_to_sdk_did")), LAMBDA agency_did :
         pack_for_agency_v2(keys, config,
                            GetMessagesRequest("GetMessagesByConnections", self),
                            agency_did))

\* httpclient::post_u8: "post" is the outcome of the transport
post_u8(data, post, response) ==
    [res |-> IF post = "Ok" THEN Ok(response) ELSE Err(post),
     calls |-> <<[op |-> "post_u8", data |-> data]>>]

\* variant: any decoded response is taken for the list of messages
parse_response_AnyVariant(response) ==
    Bind(LAMBDA parsed :
             IF ~parsed.ok THEN parsed
             ELSE IF "msgs" \in DOMAIN parsed.val[1].body
             THEN Ok(parsed.val[1].body.msgs)
             ELSE Ok(<<>>),
         parse_response_from_agency(response))

\* GetMessagesBuilder::parse_response
parse_response(response) ==
    Bind(LAMBDA parsed :
             IF ~parsed.ok THEN parsed
             ELSE IF parsed.val[1].variant = "GetMessagesResponse"
             THEN Ok(parsed.val[1].body.msgs)
             ELSE Err("InvalidHttpResponse"),
         parse_response_from_agency(response))

\* GetMessagesBuilder::send_secure
send_secure(keys, config, self, post, response) ==
    Then(prepare_request(keys, config, self), LAMBDA data :
    Then(post_u8(data, post, response), LAMBDA received :
         [res |-> parse_response(received),
          calls |-> <<[op |-> "parse_response", response |-> received]>>]))

\* GetMessagesBuilder::download_messages with the request it builds: after
\* the POST it goes on as download_messages above
download_messages_with_request(keys, config, self, post, mocks, response, wallet) ==
    Then(prepare_download_request(keys, config, self), LAMBDA data :
    Then(post_u8(data, post, response), LAMBDA received :
         [res |-> download_messages(NoDownloadEnv, mocks, received, wallet),
          calls |-> IF mocks /\ received.bytes = "empty" THEN <<>>
                    ELSE <<[op |-> "parse_download_messages_response",
                            response |-> received]>>]))

\* a body each parser accepts: the fields its struct requires
SampleBody(token) ==
    [type |-> token]
    @@ CASE token = "FWD" ->
                [fwd |-> "did1", msg |-> pack_message(Some("vk1"), <<"vk2">>, "text")]
         [] token = "MSGS" ->
                [msgs |-> <<Message_serialize(Message(1, Some(GoodPayload), None))>>]
         [] token = "MSGS_BY_CONNS" ->
                [msgsByConns |-> <<[pairwise_did |-> "did1",
                                    msgs |-> <<Message_serialize(
                                                   Message(1, Some(GoodPayload), None))>>]>>]
         [] token \in {"GET_MSGS", "GET_MSGS_BY_CONNS"} -> [uids |-> <<"uid1">>]
         [] OTHER -> [body |-> "content"]

\* the configuration: complete, or with one slot absent
FullConfig ==
    [agency_verkey |-> Some("agency_vk"), remote_to_sdk_did |-> Some("remote_did"),
     remote_to_sdk_verkey |-> Some("remote_vk"),
     sdk_to_remote_verkey |-> Some("sdk_vk")]
Configs == {FullConfig} \cup {[FullConfig EXCEPT ![k] = None] : k \in DOMAIN FullConfig}
\* the keys of the wallet: all of them, or one missing
KeySets == {{"vk1", "vk2", "sdk_vk"}, {"vk1", "sdk_vk"}, {"vk1", "vk2"}}
Builders ==
    [to_vk : Verkeys, agent_did : {"agent_did"}, agent_vk : {"agent_vk"},
     exclude_payload : {None}, uids : {None, Some(<<"uid1">>)},
     status_codes : {None, Some(<<"Received">>)}, pairwise_dids : {None}]
PostOutcomes == {"Ok", "PostMessageFailed"}
Responses ==
    {EmptyBody, GarbageBody, Packed([type |-> "UNKNOWN", body |-> "content"])}
        \cup {Packed(SampleBody(t)) : t \in Tokens}

SendSecure ==
    /\ dl.op = "none"
    /\ \E keys \in KeySets, config \in Configs, self \in Builders,
          post \in PostOutcomes, response \in Responses :
          dl' = [op |-> "send_secure", keys |-> keys, config |-> config,
                 self |-> self, post |-> post, response |-> response,
                 out |-> send_secure(keys, config, self, post, response)]
    /\ UNCHANGED <<sm, given, effects, errors, last, entry, query>>

DownloadWithRequest ==
    /\ dl.op = "none"
    /\ \E keys \in KeySets, config \in Configs, self \in Builders,
          post \in PostOutcomes, mocks \in BOOLEAN, response \in Responses :
          dl' = [op |-> "download_messages_with_request", keys |-> keys, config |-> config,
                 self |-> self, post |-> post, mocks |-> mocks,
                 response |-> response,
                 out |-> download_messages_with_request(
                             keys, config, self, post, mocks, response,
                             [d \in PairwiseDids |-> Ok("vk1")])]
    /\ UNCHANGED <<sm, given, effects, errors, last, entry, query>>

\* the bytes handed to ForwardV2::new: a packed envelope, cleartext JSON,
\* bytes that are no JSON
NewForward ==
    /\ dl.op = "none"
    /\ \E fwd \in PairwiseDids,
          msg \in {pack_message(Some("vk1"), <<"vk2">>, to_string(SampleBody("GET_MSGS"))),
                   pack_message(None, <<"vk2">>, to_string(SampleBody("GET_MSGS"))),
                   to_string(SampleBody("GET_MSGS")), GarbageBody, EmptyBody} :
          dl' = [op |-> "ForwardV2::new", fwd |-> fwd, msg |-> msg,
                 res |-> ForwardV2_new(fwd, msg)]
    /\ UNCHANGED <<sm, given, effects, errors, last, entry, query>>

\* get_connection_messages: the builder validates the identifiers, then
\* send_secure is called once; "sent" is what send_secure returns
get_connection_messages(valid, msg_uid, sent) ==
    IF valid # "Ok" THEN Pure(Err(valid))
    ELSE [res |-> IF sent.ok THEN sent ELSE Err("PostMessageFailed"),
          calls |-> <<[op |-> "send_secure", uids |-> msg_uid, status_codes |-> None]>>]

\* variant: the status of the first message is not looked at
get_ref_msg_AnyStatus(msg_id, valid, first, second) ==
    Then(get_connection_messages(valid, Some(<<msg_id>>), first), LAMBDA message :
         IF message # <<>> /\ message[1].ref_msg_id # None
         THEN Then(get_connection_messages(valid, Some(<<message[1].ref_msg_id[1]>>),
                                           second),
                   LAMBDA pending :
                       Pure(IF /\ pending # <<>>
                               /\ pending[1].payload # None
                               /\ pending[1].status_code = "Received"
                            THEN Ok(<<pending[1].uid, pending[1].payload[1]>>)
                            ELSE Err("InvalidHttpResponse")))
         ELSE Pure(Err("NotReady")))

\* get_ref_msg: "first" and "second" are what send_secure returns for the
\* query of msg_id and for the query of the id it refers to
get_ref_msg(msg_id, valid, first, second) ==
    Then(get_connection_messages(valid, Some(<<msg_id>>), first), LAMBDA message :
         IF /\ message # <<>>
            /\ message[1].ref_msg_id # None
            /\ message[1].status_code = "Accepted"
         THEN Then(get_connection_messages(valid, Some(<<message[1].ref_msg_id[1]>>),
                                           second),
                   LAMBDA pending :
                       Pure(IF /\ pending # <<>>
                               /\ pending[1].payload # None
                               /\ pending[1].status_code = "Received"
                            THEN Ok(<<pending[1].uid, pending[1].payload[1]>>)
                            ELSE Err("InvalidHttpResponse")))
         ELSE Pure(Err("NotReady")))

\* the messages a query may return and the results of a query: an error, no
\* message, one message, or a message after which another comes
RefMessages ==
    {[Message(uid, p, None) EXCEPT !.status_code = status_code, !.ref_msg_id = ref] :
        uid \in {"uid1", "ref1"}, p \in {None, Some(GoodPayload)},
        status_code \in {"Accepted", "Received", "Created"},
        ref \in {None, Some("ref1")}}
QueryResults ==
    {Err(e) : e \in {"InvalidHttpResponse", "PostMessageFailed", "InvalidConfiguration"}}
        \cup {Ok(<<>>)}
        \cup {Ok(<<m>>) : m \in RefMessages}
        \cup {Ok(<<m, [Message("uid2", Some(GoodPayload), None)
                           EXCEPT !.ref_msg_id = Some("ref2")]>>) : m \in RefMessages}

GetRefMsg ==
    /\ dl.op = "none"
    /\ \E valid \in {"Ok", "InvalidDid", "InvalidVerkey"},
          first \in QueryResults, second \in QueryResults :
          dl' = [op |-> "get_ref_msg", msg_id |-> "uid1", valid |-> valid,
                 first |-> first, second |-> second,
                 out |-> get_ref_msg("uid1", valid, first, second)]
    /\ UNCHANGED <<sm, given, effects, errors, last, entry, query>>

RequestNext ==
    \/ SendSecure
    \/ DownloadWithRequest
    \/ NewForward
    \/ GetRefMsg

RequestSpec == DownloadInit /\ [][RequestNext]_vars

----------------------------------------------------------------------------
(* The codecs of the wire values (messages/mod.rs), each applied to one    *)
(* input.                                                                  *)

\* the values handed to the decoders: every literal, strings close to them,
\* and values that are not strings
StatusStrings ==
    {"MS-101", "MS-102", "MS-103", "MS-104", "MS-105", "MS-106", "MS-107",
     "MS-100", "MS-108", "ms-101", ""}
RemoteStrings ==
    {"connReq", "connReqAnswer", "connReqRedirect", "credOffer", "credReq",
     "cred", "proofReq", "proof", "CONN_REQ_ACCEPTED", "CONN_REQ_REDIRECTED",
     "connReqRedirected", "custom", "ConnReq", ""}
NonStrings == {[number |-> 103], JsonNull}
StatusCodeLists ==
    {None} \cup {Some(codes) : codes \in UNION {[1..n -> StatusStrings] : n \in 0..2}}

StatusCodeEncode ==
    /\ dl.op = "none"
    /\ \E self \in MessageStatusCodes :
          dl' = [op |-> "status_encode", self |-> self,
                 wire |-> MessageStatusCode_serialize(self),
                 back |-> MessageStatusCode_deserialize(MessageStatusCode_serialize(self))]
    /\ UNCHANGED <<sm, given, effects, errors, last, entry, query>>

StatusCodeDecode ==
    /\ dl.op = "none"
    /\ \E value \in {JsonString(s) : s \in StatusStrings} \cup NonStrings :
          dl' = [op |-> "status_decode", value |-> value,
                 res |-> MessageStatusCode_deserialize(value)]
    /\ UNCHANGED <<sm, given, effects, errors, last, entry, query>>

ParseStatusCode ==
    /\ dl.op = "none"
    /\ \E status_codes \in StatusCodeLists :
          dl' = [op |-> "_parse_status_code", status_codes |-> status_codes,
                 res |-> parse_status_code(status_codes)]
    /\ UNCHANGED <<sm, given, effects, errors, last, entry, query>>

RemoteTypeEncode ==
    /\ dl.op = "none"
    /\ \E self \in {Known(t) : t \in RemoteTags} \cup {Other(s) : s \in RemoteStrings} :
          dl' = [op |-> "remote_encode", self |-> self,
                 wire |-> RemoteMessageType_serialize(self),
                 back |-> RemoteMessageType_deserialize(RemoteMessageType_serialize(self))]
    /\ UNCHANGED <<sm, given, effects, errors, last, entry, query>>

RemoteTypeDecode ==
    /\ dl.op = "none"
    /\ \E value \in {JsonString(s) : s \in RemoteStrings} \cup NonStrings :
          \E res \in {RemoteMessageType_deserialize(value)} :
             dl' = [op |-> "remote_decode", value |-> value, res |-> res,
                    wire |-> IF res.ok THEN Some(RemoteMessageType_serialize(res.val))
                             ELSE None]
    /\ UNCHANGED <<sm, given, effects, errors, last, entry, query>>

\* a wire body under another tag, and with no @type at all
Retagged(body, tag) == [f \in DOMAIN body |-> IF f = "type" THEN tag ELSE body[f]]
Untagged(body) == [f \in DOMAIN body \ {"type"} |-> body[f]]

\* the bodies handed to the deserializer: the body of each kind of struct,
\* bodies with an element or a field missing or bad, each of them under every
\* tag of the table, under tags outside the table and untagged
BodyShapes ==
    {SampleBody(t) : t \in {"FWD", "MSGS", "MSGS_BY_CONNS", "GET_MSGS", "CONNECT"}}
        \cup {[type |-> "MSGS", msgs |-> <<[uid |-> "uid1"]>>],
              [type |-> "MSGS_BY_CONNS", msgsByConns |-> <<[pairwise_did |-> "did1"]>>],
              [type |-> "GET_MSGS", status_codes |-> <<"MS-999">>],
              [type |-> "CONNECT"]}
WireBodies ==
    {Retagged(b, t) : b \in BodyShapes, t \in Tokens \cup {"UNKNOWN", "fwd", ""}}
        \cup {Untagged(b) : b \in BodyShapes}

Decode ==
    /\ dl.op = "none"
    /\ \E value \in WireBodies :
          dl' = [op |-> "decode", value |-> value, res |-> decode(value),
                 response |-> parse_response_from_agency(Packed(value))]
    /\ UNCHANGED <<sm, given, effects, errors, last, entry, query>>

\* the wire messages encoded and decoded again: the two requests of a builder,
\* the two responses with Message records of each kind, a Forward, and the
\* variants defined elsewhere
RoundTripMessages ==
    LET records == {Message(1, Some(GoodPayload), None),
                    Message(1, None, Some("text")),
                    [Message(1, None, None) EXCEPT !.status_code = "Reviewed",
                                                   !.msg_type = Other("custom")],
                    [Message(1, None, None) EXCEPT !.msg_type = Other("connReq")],
                    [Message(1, None, None) EXCEPT
                         !.delivery_details = <<[to |-> "did1", status_code |-> "MDS-101",
                                                 last_updated_date_time |-> "date"]>>]}
    IN {GetMessagesRequest(kind, self) :
            kind \in {"GetMessages", "GetMessagesByConnections"}, self \in Builders}
       \cup {[variant |-> "GetMessagesResponse",
              body |-> [type |-> "MSGS", msgs |-> msgs]] :
                 msgs \in {<<>>} \cup {<<r>> : r \in records}}
       \cup {[variant |-> "GetMessagesByConnectionsResponse",
              body |-> [type |-> "MSGS_BY_CONNS",
                        msgs |-> <<[pairwise_did |-> "did1", msgs |-> msgs]>>]] :
                 msgs \in {<<>>} \cup {<<r>> : r \in records}}
       \cup {[variant |-> Variant(t), body |-> SampleBody(t)] :
                 t \in Tokens \ {"MSGS", "MSGS_BY_CONNS", "GET_MSGS", "GET_MSGS_BY_CONNS"}}

RoundTrip ==
    /\ dl.op = "none"
    /\ \E message \in RoundTripMessages :
          \E wire \in {encode(message)} :
             dl' = [op |-> "round_trip", message |-> message, wire |-> wire,
                    back |-> decode(wire)]
    /\ UNCHANGED <<sm, given, effects, errors, last, entry, query>>

\* the variants of enum VerifierMessages, each with what it carries
VerifyPresentation(p) ==
    [type |-> "VerifyPresentation", presentation |-> p]
VerifierProposalReceived(proposal) ==
    [type |-> "PresentationProposalReceived", proposal |-> proposal]
VerifierRejectReceived(report) ==
    [type |-> "PresentationRejectReceived", problem_report |-> report]
VerifierUnknown == [type |-> "Unknown"]

\* variant: an Ack is taken for a rejection
VerifierMessages_from_AckRejects(msg) ==
    CASE msg.type = "Presentation" -> VerifyPresentation(msg.body)
      [] msg.type = "PresentationProposal" -> VerifierProposalReceived(msg.body)
      [] msg.type \in {"CommonProblemReport", "Ack"} -> VerifierRejectReceived(msg.body)
      [] OTHER -> VerifierUnknown

\* impl From<A2AMessage> for VerifierMessages
VerifierMessages_from(msg) ==
    CASE msg.type = "Presentation" -> VerifyPresentation(msg.body)
      [] msg.type = "PresentationProposal" -> VerifierProposalReceived(msg.body)
      [] msg.type = "CommonProblemReport" -> VerifierRejectReceived(msg.body)
      [] OTHER -> VerifierUnknown

\* the messages a verifier may be handed: the ones of the presentation
\* protocol, from either side, and messages of other protocols
VerifierInbound ==
    A2AMessages
        \cup {PresentationToA2A([thread |-> [thid |-> t],
                                 presentations_attach |-> Some("proof")]) :
                  t \in ThreadIds}
        \cup {[type |-> "PresentationProposal",
               body |-> [comment |-> c, thread |-> [thid |-> t]]] :
                  c \in {None, Some("proposal")}, t \in ThreadIds}
        \cup {AckToA2A(a) : a \in Acks}
        \cup {[type |-> type, body |-> [id |-> i]] :
                  type \in {"Ping", "PingResponse", "Generic", "CredentialOffer",
                            "ConnectionRequest"},
                  i \in MessageIds}

VerifierFrom ==
    /\ dl.op = "none"
    /\ \E msg \in VerifierInbound :
          dl' = [op |-> "VerifierMessages::from", msg |-> msg,
                 res |-> VerifierMessages_from(msg)]
    /\ UNCHANGED <<sm, given, effects, errors, last, entry, query>>

CodecNext ==
    \/ StatusCodeEncode
    \/ StatusCodeDecode
    \/ ParseStatusCode
    \/ RemoteTypeEncode
    \/ RemoteTypeDecode
    \/ Decode
    \/ RoundTrip
    \/ VerifierFrom

CodecSpec == DownloadInit /\ [][CodecNext]_vars

----------------------------------------------------------------------------
(* Shorthands for the claims *)

Stepped == last.cmd.type # "None"
PreTag == last.pre.state.tag
CmdType == last.cmd.type

\* the (state, command) pairs the transition table lists
Listed(tag, type) ==
    \/ tag = "Initiated" /\ type = "PreparePresentation"
    \/ tag = "PresentationPrepared" /\ type = "SendPresentation"
    \/ tag = "PresentationPreparationFailed" /\ type = "SendPresentation"
    \/ tag = "PresentationSent" /\ type = "PresentationAckReceived"
    \/ tag = "PresentationSent" /\ type = "PresentationRejectReceived"

\* the step returned Ok with exactly the machine it was given and made no call
Unchanged ==
    /\ last.res.ok
    /\ last.res.sm = last.pre
    /\ last.res.fx = <<>>
    /\ sm = last.pre

----------------------------------------------------------------------------
(* C1: Finished is terminal.  Every step taken on a machine in Finished,   *)
(* whatever the command, returns Ok with a machine equal to its input      *)
(* (status, connection handle, request, presentation, source_id) and makes *)
(* no call to the connection handler.                                      *)
C1_FinishedIsTerminal ==
    (Stepped /\ PreTag = "Finished") => Unchanged

\* a Finished(Success) machine was given a problem report of its own thread
C1_Witness ==
    /\ PreTag = "Finished"
    /\ last.pre.state.status = StatusSuccess
    /\ CmdType = "PresentationRejectReceived"
    /\ last.cmd.problem_report.thread.thid = Some(thread_id(last.pre))

(* C2: in every reachable state presentation_request() is the request      *)
(* given to new and thread_id() is that request's @id; the machine a step  *)
(* returns has them too.                                                   *)
C2_RequestPreserved ==
    /\ presentation_request(sm) = given.presentation_request
    /\ thread_id(sm) = given.presentation_request.id
    /\ source_id(sm) = given.source_id
    /\ last.res.ok =>
          /\ presentation_request(last.res.sm) = given.presentation_request
          /\ thread_id(last.res.sm) = given.presentation_request.id

\* an intermediate state: the presentation was sent, nothing received yet
C2_Witness ==
    /\ sm.state.tag = "PresentationSent"
    /\ PreTag = "PresentationPrepared"
    /\ thread_id(sm) = given.presentation_request.id

(* C3: from PresentationSent an ack, whatever its status and thread,       *)
(* gives Finished(Success) and a problem report r gives                    *)
(* Finished(Failed(r)); connection handle, request and presentation are    *)
(* those of the Sent state.                                                *)
C3_SentToFinished ==
    (Stepped /\ PreTag = "PresentationSent"
        /\ CmdType \in {"PresentationAckReceived", "PresentationRejectReceived"})
    => /\ last.res.ok
       /\ last.res.fx = <<>>
       /\ sm = last.res.sm
       /\ sm.source_id = last.pre.source_id
       /\ sm.state.tag = "Finished"
       /\ sm.state.connection_handle = last.pre.state.connection_handle
       /\ sm.state.presentation_request = last.pre.state.presentation_request
       /\ sm.state.presentation = last.pre.state.presentation
       /\ sm.state.status =
             IF CmdType = "PresentationAckReceived" THEN StatusSuccess
             ELSE StatusFailed(last.cmd.problem_report)

\* an ack whose status is FAIL still finishes the exchange with Success
C3_Witness ==
    /\ PreTag = "PresentationSent"
    /\ CmdType = "PresentationAckReceived"
    /\ last.cmd.ack.status = "FAIL"
    /\ sm.state.tag = "Finished"

(* C4: from Initiated, PreparePresentation always returns Ok.  When the    *)
(* proof is built the state is PresentationPrepared holding it; when any   *)
(* part of building it fails the state is PresentationPreparationFailed    *)
(* holding a problem report whose thid is the request's @id.               *)
C4_PrepareAbsorbsFailure ==
    (Stepped /\ PreTag = "Initiated" /\ CmdType = "PreparePresentation")
    => /\ last.res.ok
       /\ last.res.fx = <<>>
       /\ sm = last.res.sm
       /\ sm.state.presentation_request = last.pre.state.presentation_request
       /\ IF last.env = NoEnv
          THEN /\ sm.state.tag = "PresentationPrepared"
               /\ sm.state.presentation.presentations_attach =
                     Some(generate_indy_proof(last.cmd.credentials,
                              last.cmd.self_attested_attrs,
                              last.pre.state.presentation_request.request_presentations_attach))
               /\ sm.state.presentation.thread.thid = Some(thread_id(last.pre))
          ELSE /\ sm.state.tag = "PresentationPreparationFailed"
               /\ sm.state.problem_report.thread.thid = Some(thread_id(last.pre))

\* the proof library failed and the step returned Ok(PreparationFailed)
C4_Witness ==
    /\ PreTag = "Initiated"
    /\ CmdType = "PreparePresentation"
    /\ last.env.proof # "Ok"
    /\ last.res.ok
    /\ sm.state.tag = "PresentationPreparationFailed"

(* C5: from PresentationPrepared, SendPresentation(h) first transmits the  *)
(* prepared presentation over h, then removes the pending-message marker   *)
(* of the request's @id on h, and becomes PresentationSent(h) with request *)
(* and presentation unchanged only when both succeeded.  No marker is ever *)
(* removed unless the call that took effect just before it was the         *)
(* transmission of a presentation over the same connection.                *)
C5_SendThenRemoveThenSent ==
    /\ (Stepped /\ PreTag = "PresentationPrepared" /\ CmdType = "SendPresentation")
       => LET h == last.cmd.connection_handle
              pre == last.pre.state
              fx == last.res.fx
          IN /\ Len(fx) >= 1
             /\ SameCall(fx[1], SendCall(h, PresentationToA2A(pre.presentation),
                                          last.env.send))
             /\ ~fx[1].ok => Len(fx) = 1
             /\ fx[1].ok =>
                   /\ Len(fx) = 2
                   /\ SameCall(fx[2], RemoveCall(h, pre.presentation_request.id,
                                                  last.env.remove))
             /\ last.res.ok <=> (Len(fx) = 2 /\ fx[1].ok /\ fx[2].ok)
             /\ last.res.ok =>
                   /\ sm.state.tag = "PresentationSent"
                   /\ sm.state.connection_handle = h
                   /\ sm.state.presentation_request = pre.presentation_request
                   /\ sm.state.presentation = pre.presentation
             /\ ~last.res.ok => sm = last.pre
    /\ \A i \in 1..Len(effects) :
          effects[i].op = "remove_pending_message" =>
              /\ i > 1
              /\ effects[i - 1].op = "send_message"
              /\ effects[i - 1].connection_handle = effects[i].connection_handle
              /\ effects[i - 1].msg.type = "Presentation"
    /\ sm.state.tag = "PresentationSent" =>
          \E i \in 2..Len(effects) :
              /\ SameCall(effects[i],
                          RemoveCall(sm.state.connection_handle,
                                     sm.state.presentation_request.id, "Ok"))
              /\ SameCall(effects[i - 1],
                          SendCall(sm.state.connection_handle,
                                   PresentationToA2A(sm.state.presentation), "Ok"))

\* a transmission failed (no marker removed), the retry went through
C5_Witness ==
    /\ PreTag = "PresentationPrepared"
    /\ CmdType = "SendPresentation"
    /\ sm.state.tag = "PresentationSent"
    /\ errors = 1
    /\ Len(effects) = 2
    /\ effects[2].op = "remove_pending_message"

(* C6: from PresentationPreparationFailed, SendPresentation(h) transmits   *)
(* over h the problem report the state holds, and nothing else; when the   *)
(* transmission succeeds the result is Finished with connection handle h   *)
(* and status Failed(that report), and presentation_status() is the        *)
(* Failed code.                                                            *)
C6_FailedSendsReport ==
    (Stepped /\ PreTag = "PresentationPreparationFailed" /\ CmdType = "SendPresentation")
    => LET h == last.cmd.connection_handle
           report == last.pre.state.problem_report
       IN /\ Len(last.res.fx) = 1
          /\ SameCall(last.res.fx[1],
                      SendCall(h, ProblemReportToA2A(report), last.env.send))
          /\ last.env.send = "Ok" =>
                /\ last.res.ok
                /\ sm = last.res.sm
                /\ sm.state.tag = "Finished"
                /\ sm.state.connection_handle = h
                /\ sm.state.status = StatusFailed(report)
                /\ sm.state.presentation_request = last.pre.state.presentation_request
                /\ presentation_status(sm) = code(StatusFailed(ProblemReportCreate))

\* the report of a failed proof generation was sent and the machine finished
C6_Witness ==
    /\ PreTag = "PresentationPreparationFailed"
    /\ CmdType = "SendPresentation"
    /\ last.res.ok
    /\ sm.state.tag = "Finished"
    /\ sm.state.status.report.comment = Some("InvalidProofCredentialData")
    /\ Len(effects) = 1
    /\ SameCall(effects[1], SendCall(last.cmd.connection_handle,
                                     ProblemReportToA2A(sm.state.status.report), "Ok"))

(* C7: a step on a (state, command) pair the transition table does not     *)
(* list returns Ok with a machine equal to its input, source_id included,  *)
(* and makes no call to the connection handler.                            *)
C7_UnlistedPairsUnchanged ==
    (Stepped /\ ~Listed(PreTag, CmdType)) => Unchanged

\* SendPresentation given again in PresentationSent: nothing is sent
C7_Witness ==
    /\ PreTag = "PresentationSent"
    /\ CmdType = "SendPresentation"
    /\ last.cmd.connection_handle # last.pre.state.connection_handle
    /\ sm = last.pre

(* C8: when the transmission fails in SendPresentation from                *)
(* PresentationPrepared or PresentationPreparationFailed, step returns     *)
(* that error and no machine; and a step that returned an error, for       *)
(* whatever reason, produced no machine and left the driver's machine as   *)
(* it was.                                                                 *)
C8_SendErrorNotAdvanced ==
    /\ (Stepped /\ CmdType = "SendPresentation"
           /\ PreTag \in {"PresentationPrepared", "PresentationPreparationFailed"}
           /\ last.env.send # "Ok")
       => /\ ~last.res.ok
          /\ last.res.err = last.env.send
    /\ ~last.res.ok =>
          /\ "sm" \notin DOMAIN last.res
          /\ sm = last.pre
          /\ CmdType = "SendPresentation"
          /\ last.res.err \in {last.env.send, last.env.remove} \ {"Ok"}

\* the transport failed while the problem report was being sent
C8_Witness ==
    /\ PreTag = "PresentationPreparationFailed"
    /\ CmdType = "SendPresentation"
    /\ last.env.send = "PostMessageFailed"
    /\ ~last.res.ok
    /\ sm.state.tag = "PresentationPreparationFailed"

\* the calls that completed a successful step(SendPresentation(h))
CompletedSends ==
    {i \in 1..Len(effects) :
        \/ effects[i].op = "remove_pending_message"
        \/ effects[i].op = "send_message" /\ effects[i].msg.type = "CommonProblemReport"}

(* C9: once a step(SendPresentation(h)) has succeeded, connection_handle() *)
(* is Ok(h) in every state from then on; it is Ok only then.               *)
C9_HandleCarried ==
    /\ \A i \in CompletedSends :
          connection_handle(sm) = Ok(effects[i].connection_handle)
    /\ connection_handle(sm).ok => CompletedSends # {}
    /\ (last.res.ok /\ CmdType = "SendPresentation"
           /\ PreTag \in {"PresentationPrepared", "PresentationPreparationFailed"})
       => connection_handle(sm) = Ok(last.cmd.connection_handle)
    /\ (Stepped /\ connection_handle(last.pre).ok)
       => connection_handle(sm) = connection_handle(last.pre)

\* Finished was reached by a problem report received in PresentationSent
C9_Witness ==
    /\ PreTag = "PresentationSent"
    /\ CmdType = "PresentationRejectReceived"
    /\ sm.state.tag = "Finished"
    /\ connection_handle(sm) = Ok(last.pre.state.connection_handle)

\* the problem report the Finished state holds was delivered to the peer
ReportDelivered ==
    \E i \in 1..Len(effects) :
        SameCall(effects[i],
                 SendCall(sm.state.connection_handle,
                          ProblemReportToA2A(sm.state.status.report), "Ok"))

(* C10: a machine in PresentationPreparationFailed, with SendPresentation  *)
(* issued until the transport succeeds, eventually is in Finished with     *)
(* status Failed, its problem report delivered by that SendPresentation.   *)
C10_FailureReachesFinished ==
    (sm.state.tag = "PresentationPreparationFailed")
        ~> (/\ sm.state.tag = "Finished"
            /\ sm.state.status.tag = "Failed"
            /\ ReportDelivered)

\* the transport failed once, the second SendPresentation delivered the report
C10_Witness ==
    /\ PreTag = "PresentationPreparationFailed"
    /\ sm.state.tag = "Finished"
    /\ sm.state.status.tag = "Failed"
    /\ errors = 1
    /\ Len(effects) = 1
    /\ ReportDelivered

----------------------------------------------------------------------------
(* Shorthands for the claims on find_message_to_handle *)

\* the machine that was asked is in the variant tag
AskedIn(tag) == query.asked /\ query.self.state.tag = tag

\* the positions of the map holding an Ack or a CommonProblemReport whose
\* thread thid is the thread id of the machine that was asked
Matching ==
    {i \in 1..Len(query.messages) :
        /\ query.messages[i].message.type \in {"Ack", "CommonProblemReport"}
        /\ query.messages[i].message.body.thread.thid = Some(thread_id(query.self))}

MatchingOf(type) == {i \in Matching : query.messages[i].message.type = type}

(* C11: in PresentationSent find_message_to_handle returns only an Ack or  *)
(* a CommonProblemReport whose thread thid is thread_id(), with the uid it *)
(* is stored under; it returns None exactly when the map holds no such     *)
(* message, whatever the order of the iteration.                           *)
C11_ReturnsOnlyReplies ==
    AskedIn("PresentationSent") =>
        /\ (query.res = None) <=> (Matching = {})
        /\ query.res # None =>
              \E i \in Matching : query.res = Some(query.messages[i])

\* an Ack of another thread comes first and is passed over, the problem
\* report of the thread is returned with its uid
C11_Witness ==
    /\ AskedIn("PresentationSent")
    /\ Len(query.messages) = 2
    /\ query.messages[1].message.type = "Ack"
    /\ 1 \notin Matching
    /\ query.messages[2].message.type = "CommonProblemReport"
    /\ query.res = Some(query.messages[2])
    /\ query.res[1].uid = query.messages[2].uid

(* C12, as stated: in PresentationSent, when the map holds both an Ack and *)
(* a CommonProblemReport replying to the thread, find_message_to_handle    *)
(* returns an Ack; a CommonProblemReport is returned only when the map     *)
(* holds no matching Ack, whatever the order of the iteration.             *)
C12_AckPreferred ==
    (AskedIn("PresentationSent") /\ MatchingOf("Ack") # {}) =>
        /\ query.res # None
        /\ query.res[1].message.type = "Ack"

(* C12, amended: in PresentationSent find_message_to_handle returns the    *)
(* matching entry the iteration meets first, Ack or CommonProblemReport    *)
(* alike; with both in the map an Ack is returned exactly when a matching  *)
(* Ack comes before every matching CommonProblemReport.                    *)
C12_FirstInIterationOrder ==
    (AskedIn("PresentationSent") /\ Matching # {}) =>
        /\ \E i \in Matching :
              /\ \A j \in Matching : i <= j
              /\ query.res = Some(query.messages[i])
        /\ (MatchingOf("Ack") # {} /\ MatchingOf("CommonProblemReport") # {}) =>
              ((query.res[1].message.type = "Ack") <=>
                  \E i \in MatchingOf("Ack") :
                      \A j \in MatchingOf("CommonProblemReport") : i < j)

\* the map holds a matching report before a matching Ack: the report is returned
C12_Witness ==
    /\ AskedIn("PresentationSent")
    /\ MatchingOf("CommonProblemReport") = {1}
    /\ MatchingOf("Ack") = {2}
    /\ query.res = Some(query.messages[1])

(* C13: in Initiated, PresentationPrepared, PresentationPreparationFailed  *)
(* and Finished find_message_to_handle returns None for every map, also    *)
(* for maps holding an Ack or a CommonProblemReport of the thread and for  *)
(* maps holding a PresentationRequest.                                     *)
C13_NoneOutsideSent ==
    (query.asked /\ query.self.state.tag # "PresentationSent") =>
        query.res = None

\* a Finished machine is shown an Ack of its thread and a request
C13_Witness ==
    /\ AskedIn("Finished")
    /\ MatchingOf("Ack") # {}
    /\ \E i \in 1..Len(query.messages) :
          query.messages[i].message.type = "PresentationRequest"
    /\ query.res = None

\* the same in the three variants before the presentation is sent
C13_WitnessBeforeSent ==
    /\ \/ AskedIn("Initiated")
       \/ AskedIn("PresentationPrepared")
       \/ AskedIn("PresentationPreparationFailed")
    /\ Matching # {}
    /\ query.res = None

----------------------------------------------------------------------------
(* Shorthands for the claims on the queries *)

Tag == sm.state.tag

\* the order of the external state codes
Rank(c) ==
    CASE c = "VcxStateInitialized" -> 1
      [] c = "VcxStateOfferSent" -> 2
      [] c = "VcxStateAccepted" -> 3

(* C14: presentation_status() is the code of Undefined in every variant    *)
(* but Finished; in Finished it is the code of the stored status, which is *)
(* Success exactly when Finished was entered by PresentationAckReceived    *)
(* from PresentationSent, and Failed when it was entered by                *)
(* PresentationRejectReceived or from PresentationPreparationFailed.  A    *)
(* Finished state never has the status Undefined.                          *)
C14_StatusCode ==
    /\ Tag # "Finished" => presentation_status(sm) = code(StatusUndefined)
    /\ Tag = "Finished" =>
          /\ presentation_status(sm) = code(sm.state.status)
          /\ (presentation_status(sm) = code(StatusSuccess)) <=>
                (entry = [from |-> "PresentationSent",
                          by |-> "PresentationAckReceived"])
          /\ (\/ entry.by = "PresentationRejectReceived"
              \/ entry.from = "PresentationPreparationFailed") =>
                presentation_status(sm) = code(StatusFailed(ProblemReportCreate))
          /\ sm.state.status # StatusUndefined
          /\ presentation_status(sm) # code(StatusUndefined)

\* Finished was entered from PresentationPreparationFailed: Failed
C14_Witness ==
    /\ Tag = "Finished"
    /\ entry.from = "PresentationPreparationFailed"
    /\ presentation_status(sm) = code(StatusFailed(ProblemReportCreate))

(* C15: connection_handle() returns NotReady in Initiated,                 *)
(* PresentationPrepared and PresentationPreparationFailed and Ok in        *)
(* PresentationSent and Finished; presentation() returns NotReady in       *)
(* Initiated and PresentationPreparationFailed and Ok in                   *)
(* PresentationPrepared, PresentationSent and Finished.  The queries read  *)
(* the machine only.                                                       *)
C15_NotReadyQueries ==
    /\ Tag \in {"Initiated", "PresentationPrepared", "PresentationPreparationFailed"}
          => connection_handle(sm) = Err("NotReady")
    /\ Tag \in {"PresentationSent", "Finished"}
          => connection_handle(sm) = Ok(sm.state.connection_handle)
    /\ Tag \in {"Initiated", "PresentationPreparationFailed"}
          => presentation(sm) = Err("NotReady")
    /\ Tag \in {"PresentationPrepared", "PresentationSent", "Finished"}
          => presentation(sm) = Ok(sm.state.presentation)

\* the presentation is sent: both queries answer
C15_Witness ==
    /\ Tag = "PresentationSent"
    /\ connection_handle(sm).ok
    /\ presentation(sm).ok
    /\ presentation(sm).val # PresentationCreate

(* C16: state() is Initialized for Initiated, PresentationPrepared and     *)
(* PresentationPreparationFailed, OfferSent for PresentationSent and       *)
(* Accepted for Finished; has_transitions() is true exactly in             *)
(* PresentationPrepared, PresentationPreparationFailed and                 *)
(* PresentationSent; along every command sequence state() never goes back *)
(* from Accepted to OfferSent or from OfferSent to Initialized.            *)
C16_StateCodes ==
    /\ [](/\ Tag \in {"Initiated", "PresentationPrepared",
                       "PresentationPreparationFailed"}
               => state(sm) = "VcxStateInitialized"
          /\ Tag = "PresentationSent" => state(sm) = "VcxStateOfferSent"
          /\ Tag = "Finished" => state(sm) = "VcxStateAccepted"
          /\ has_transitions(sm) <=>
                Tag \in {"PresentationPrepared", "PresentationPreparationFailed",
                         "PresentationSent"})
    /\ [][Rank(state(sm')) >= Rank(state(sm))]_vars

\* a command was given to a Finished machine and the code is still Accepted
C16_Witness ==
    /\ Tag = "Finished"
    /\ PreTag = "Finished"
    /\ Stepped
    /\ state(sm) = "VcxStateAccepted"
    /\ ~has_transitions(sm)

----------------------------------------------------------------------------
(* Shorthands for the claims on the agency inbox *)

DecryptCalled == dl.op = "decrypt"
Downloaded == dl.op = "download_messages"

\* the connections of the response download_messages was given
Sent == dl.in.response.message.msgsByConns

\* download_messages got as far as the connections of a MSGS_BY_CONNS response
ReachedConnections ==
    /\ Downloaded
    /\ dl.in.env = NoDownloadEnv
    /\ dl.in.response.bytes = "packed"
    /\ dl.in.response.message.type = "MSGS_BY_CONNS"

(* C17, as stated: for every Message m and verkey vk, m.decrypt(vk) has no *)
(* payload and has a decrypted_payload, whether or not m carried a payload.*)
C17_AlwaysDecryptedPayload ==
    DecryptCalled =>
        /\ dl.res.message.payload = None
        /\ dl.res.message.decrypted_payload # None

(* C17, amended: m.decrypt(vk) never has a payload.  When m carried a      *)
(* payload the result has a decrypted_payload, the JSON text of what was   *)
(* decoded or the text null when both decode paths failed, so exactly one  *)
(* of the two fields is populated; when m carried no payload its           *)
(* decrypted_payload is returned as it was, absent if it was absent.       *)
C17_DecryptedPayloadIfPayload ==
    DecryptCalled =>
        /\ dl.res.message.payload = None
        /\ dl.self.payload # None =>
              /\ dl.res.message.decrypted_payload # None
              /\ (~decrypt_payload_v2(dl.vk, dl.self.payload[1]).ok
                     /\ ~decrypt_v3_message(dl.self).ok)
                   => dl.res.message.decrypted_payload = Some(to_string(JsonNull))
        /\ dl.self.payload = None =>
              dl.res.message.decrypted_payload = dl.self.decrypted_payload
        /\ \A f \in DOMAIN dl.self \ {"payload", "decrypted_payload"} :
              dl.res.message[f] = dl.self[f]

\* a message the wallet cannot unpack: payload cleared, text null
C17_Witness ==
    /\ DecryptCalled
    /\ dl.self.payload # None
    /\ ~dl.self.payload[1].unpacks
    /\ dl.res.message.payload = None
    /\ dl.res.message.decrypted_payload = Some(to_string(JsonNull))

\* a message without payload, not decrypted before: neither field is set
C17_WitnessNoPayload ==
    /\ DecryptCalled
    /\ dl.self.payload = None
    /\ dl.self.decrypted_payload = None
    /\ dl.res.message.payload = None
    /\ dl.res.message.decrypted_payload = None

(* C18: decrypt tries the decode paths in a fixed order.                   *)
(* decrypt_payload_v2 is tried first; _decrypt_v3_message is tried only    *)
(* when decrypt_payload_v2 failed and its result is used only then; when   *)
(* both fail decrypted_payload is the JSON text null.  When                *)
(* decrypt_payload_v2 succeeds the second path is not invoked.             *)
C18_V2ThenV3 ==
    (DecryptCalled /\ dl.self.payload # None) =>
        LET v2 == decrypt_payload_v2(dl.vk, dl.self.payload[1])
            v3 == decrypt_v3_message(dl.self)
            text == dl.res.message.decrypted_payload
        IN /\ Len(dl.res.calls) >= 1
           /\ dl.res.calls[1] = "decrypt_payload_v2"
           /\ v2.ok =>
                 /\ dl.res.calls = <<"decrypt_payload_v2">>
                 /\ text = Some(to_string(v2.val))
           /\ ~v2.ok =>
                 /\ dl.res.calls = <<"decrypt_payload_v2", "_decrypt_v3_message">>
                 /\ v3.ok => text = Some(to_string(v3.val))
                 /\ ~v3.ok => text = Some(to_string(JsonNull))

\* a payload both paths could decode: only decrypt_payload_v2 is called
C18_Witness ==
    /\ DecryptCalled
    /\ dl.self.payload # None
    /\ decrypt_payload_v2(dl.vk, dl.self.payload[1]).ok
    /\ decrypt_v3_message(dl.self).ok
    /\ dl.res.calls = <<"decrypt_payload_v2">>

\* decrypt_payload_v2 fails on an aries message, the envelope path decodes it
C18_WitnessSecondPath ==
    /\ DecryptCalled
    /\ dl.self.payload # None
    /\ dl.self.payload[1].message.kind = "Aries"
    /\ dl.res.calls = <<"decrypt_payload_v2", "_decrypt_v3_message">>
    /\ dl.res.message.decrypted_payload # Some(to_string(JsonNull))

(* C19: when download_messages succeeds on a response of connections, it   *)
(* returns one bundle per connection of the response, in the same order    *)
(* and with the same pairwise_did, each with one message per message of    *)
(* the connection, in the same order and with the same uid; connections    *)
(* without messages and messages that could not be decrypted included.     *)
C19_BundlesPreserved ==
    (ReachedConnections /\ dl.res.ok) =>
        /\ Len(dl.res.val) = Len(Sent)
        /\ \A b \in 1..Len(Sent) :
              /\ dl.res.val[b].pairwise_did = Sent[b].pairwise_did
              /\ Len(dl.res.val[b].msgs) = Len(Sent[b].msgs)
              /\ \A i \in 1..Len(Sent[b].msgs) :
                    dl.res.val[b].msgs[i].uid = Sent[b].msgs[i].uid

\* a connection without messages, then one with a message that decrypts
\* and one that does not
C19_Witness ==
    /\ ReachedConnections
    /\ dl.res.ok
    /\ Len(Sent) = 2
    /\ Sent[1].msgs = <<>>
    /\ Len(Sent[2].msgs) = 2
    /\ Sent[1].pairwise_did # Sent[2].pairwise_did
    /\ Sent[2].msgs[1].payload = Some(GoodPayload)
    /\ Sent[2].msgs[2].payload = Some(BadPayload)
    /\ dl.res.val[2].msgs[2].decrypted_payload = Some(to_string(JsonNull))

\* the connections of the response whose verkey the wallet does not find
LookupFails ==
    {b \in 1..Len(Sent) : ~get_local_verkey(dl.in.wallet, Sent[b].pairwise_did).ok}

(* C20: if the lookup of the local verkey fails for one connection of a    *)
(* MSGS_BY_CONNS response, download_messages returns that error for the    *)
(* whole call and no bundle, also not for earlier connections whose lookup *)
(* and decryption succeeded; a message that cannot be decrypted never      *)
(* fails the call.                                                         *)
C20_LookupFailureFailsAll ==
    ReachedConnections =>
        /\ LookupFails # {} =>
              /\ ~dl.res.ok
              /\ "val" \notin DOMAIN dl.res
              /\ \E b \in LookupFails :
                    dl.res = get_local_verkey(dl.in.wallet, Sent[b].pairwise_did)
        /\ LookupFails = {} => dl.res.ok

\* the first connection is known and its message decrypts, the second is not
C20_Witness ==
    /\ ReachedConnections
    /\ LookupFails = {2}
    /\ Sent[1].msgs # <<>>
    /\ Sent[1].msgs[1].payload = Some(GoodPayload)
    /\ dl.res = Err("VerkeyNotFound")

\* every connection is known, no message can be decrypted: the call succeeds
C20_WitnessUndecryptable ==
    /\ ReachedConnections
    /\ LookupFails = {}
    /\ Len(Sent) = 1
    /\ Sent[1].msgs # <<>>
    /\ \A i \in 1..Len(Sent[1].msgs) : Sent[1].msgs[i].payload = Some(BadPayload)
    /\ dl.res.ok

----------------------------------------------------------------------------
(* Payload encryption and decryption.                                      *)

Encrypted == dl.op = "encrypt"
PayloadDecrypted == dl.op = "decrypt_payload_v2"
NonEmpty(thid) == thid # None /\ thid[1] # ""

\* C21: every PayloadV2 returned by decrypt_payload_v2 has a thid that is
\* present and not empty: filled from the id of the payload when the payload
\* has none, left as it is otherwise; so it is for the payloads encrypt
\* produces.
C21_ThidPresentNonEmpty ==
    (PayloadDecrypted /\ dl.res.ok) =>
        /\ NonEmpty(dl.res.val.thread.thid)
        /\ dl.payload.message.thid = None =>
               dl.res.val.thread.thid = Some(dl.payload.message.id)
        /\ dl.payload.message.thid # None =>
               dl.res.val.thread.thid = dl.payload.message.thid

\* a payload of encrypt, made for a thread without thid, was decrypted: its
\* id is the empty string and so is the thid filled from it
C21_EmptyThid ==
    /\ PayloadDecrypted
    /\ dl.payload \in EncryptedPayloads
    /\ dl.payload.message.thid = None
    /\ dl.res.ok
    /\ dl.res.val.thread.thid = Some("")

\* C30: encrypt without a thread fails with InvalidState before the payload
\* is built and before pack_message is called; with a thread it packs, with
\* my_vk as the sender and their_vk as the only recipient, a PayloadV2 with
\* the given data as msg, the empty string as id and the given thread.
C30_EncryptNeedsThread ==
    Encrypted =>
        /\ dl.thread = None =>
               /\ dl.out.res = Err("InvalidState")
               /\ dl.out.calls = <<>>
        /\ dl.thread # None =>
               /\ Len(dl.out.calls) = 2
               /\ dl.out.calls[1].op = "build_v2"
               /\ dl.out.calls[2].op = "pack_message"
               /\ dl.out.calls[2].sender = Some(dl.my_vk)
               /\ dl.out.calls[2].recipients = <<dl.their_vk>>
               /\ dl.out.calls[2].message.json.msg = dl.data
               /\ dl.out.calls[2].message.json.id = ""
               /\ dl.out.calls[2].message.json.thread = dl.thread[1]
               /\ dl.out.res.ok =>
                      /\ dl.out.res.val.sender = Some(dl.my_vk)
                      /\ dl.out.res.val.recipients = <<dl.their_vk>>
                      /\ dl.out.res.val.message = dl.out.calls[2].message

C30_Witness ==
    /\ Encrypted
    /\ dl.thread # None
    /\ dl.out.res.ok
    /\ dl.out.res.val.message.json.thread = dl.thread[1]

C30_WitnessNoThread ==
    /\ Encrypted
    /\ dl.thread = None
    /\ ~dl.out.res.ok

----------------------------------------------------------------------------
(* The codecs of the status codes and of the remote message types.         *)

\* the codes and their literals, in the order of the enum
StatusOrder ==
    <<"Created", "Sent", "Received", "Accepted", "Rejected", "Reviewed", "Redirected">>
StatusLiterals ==
    <<"MS-101", "MS-102", "MS-103", "MS-104", "MS-105", "MS-106", "MS-107">>
IsLiteral(s) == \E i \in 1..Len(StatusLiterals) : StatusLiterals[i] = s

\* C28: the seven status codes encode to the distinct literals MS-101 to
\* MS-107 in the order of the enum and each literal decodes back to its code;
\* any other string and any value that is not a string fails to decode, and
\* _parse_status_code turns such a failure into InvalidJson for the list.
C28_StatusCodeLiterals ==
    /\ dl.op = "status_encode" =>
           /\ \E i \in 1..Len(StatusOrder) :
                 /\ dl.self = StatusOrder[i]
                 /\ dl.wire = JsonString(StatusLiterals[i])
           /\ dl.back = Ok(dl.self)
           /\ \A other \in MessageStatusCodes \ {dl.self} :
                 MessageStatusCode_serialize(other) # dl.wire
    /\ dl.op = "status_decode" =>
           /\ dl.res.ok <=> (as_str(dl.value) # None /\ IsLiteral(as_str(dl.value)[1]))
           /\ dl.res.ok => MessageStatusCode_serialize(dl.res.val) = dl.value
    /\ (dl.op = "_parse_status_code" /\ dl.status_codes # None) =>
           IF \E i \in 1..Len(dl.status_codes[1]) : ~IsLiteral(dl.status_codes[1][i])
           THEN dl.res = Err("InvalidJson")
           ELSE /\ dl.res.ok
                /\ Len(dl.res.val[1]) = Len(dl.status_codes[1])
                /\ \A i \in 1..Len(dl.status_codes[1]) :
                      MessageStatusCode_to_string(dl.res.val[1][i]) = dl.status_codes[1][i]

C28_Witness ==
    /\ dl.op = "_parse_status_code"
    /\ dl.status_codes # None
    /\ Len(dl.status_codes[1]) = 2
    /\ IsLiteral(dl.status_codes[1][1])
    /\ ~IsLiteral(dl.status_codes[1][2])
    /\ dl.res = Err("InvalidJson")

C28_WitnessEncoded ==
    /\ dl.op = "status_encode"
    /\ dl.self = "Redirected"
    /\ dl.wire = JsonString("MS-107")

C28_WitnessNotString ==
    /\ dl.op = "status_decode"
    /\ as_str(dl.value) = None
    /\ ~dl.res.ok

\* the canonical spelling of each known remote message type
Canonical(tag) ==
    CASE tag = "ConnReq" -> "connReq"
      [] tag = "ConnReqAnswer" -> "connReqAnswer"
      [] tag = "ConnReqRedirect" -> "connReqRedirect"
      [] tag = "CredOffer" -> "credOffer"
      [] tag = "CredReq" -> "credReq"
      [] tag = "Cred" -> "cred"
      [] tag = "ProofReq" -> "proofReq"
      [] tag = "Proof" -> "proof"
\* the type a spelling (canonical or alias) names, if it names one
Spelled(s) ==
    CASE s = "CONN_REQ_ACCEPTED" -> Some("ConnReqAnswer")
      [] s \in {"CONN_REQ_REDIRECTED", "connReqRedirected"} -> Some("ConnReqRedirect")
      [] \E t \in RemoteTags : Canonical(t) = s ->
             Some(CHOOSE t \in RemoteTags : Canonical(t) = s)
      [] OTHER -> None

\* C29: decoding a remote message type accepts the canonical spellings and
\* the aliases (CONN_REQ_ACCEPTED for ConnReqAnswer; CONN_REQ_REDIRECTED and
\* connReqRedirected for ConnReqRedirect); encoding emits the canonical
\* spelling, so an alias decoded and encoded again gives the canonical token;
\* any other string s decodes to Other(s) with s as it was, and a value that
\* is not a string fails.
C29_AliasesCanonical ==
    /\ dl.op = "remote_decode" =>
           IF as_str(dl.value) = None THEN ~dl.res.ok
           ELSE IF Spelled(as_str(dl.value)[1]) # None
           THEN /\ dl.res = Ok(Known(Spelled(as_str(dl.value)[1])[1]))
                /\ dl.wire = Some(JsonString(Canonical(Spelled(as_str(dl.value)[1])[1])))
           ELSE /\ dl.res = Ok(Other(as_str(dl.value)[1]))
                /\ dl.wire = Some(dl.value)
    /\ (dl.op = "remote_encode" /\ dl.self.tag # "Other") =>
           dl.wire = JsonString(Canonical(dl.self.tag))

C29_Witness ==
    /\ dl.op = "remote_decode"
    /\ dl.value = JsonString("CONN_REQ_REDIRECTED")
    /\ dl.res = Ok(Known("ConnReqRedirect"))
    /\ dl.wire = Some(JsonString("connReqRedirect"))

C29_WitnessOther ==
    /\ dl.op = "remote_decode"
    /\ dl.value = JsonString("custom")
    /\ dl.res = Ok(Other("custom"))

----------------------------------------------------------------------------
(* The requests of the Agency Client.                                      *)

SentSecure == dl.op = "send_secure"
DownloadRequested == dl.op = "download_messages_with_request"
ForwardBuilt == dl.op = "ForwardV2::new"
Calls == dl.out.calls
\* the envelope a pack_message call gives
Envelope(call) == pack_message(call.sender, call.recipients, call.message)
\* the places of the calls to the transport
Posts == {i \in 1..Len(Calls) : Calls[i].op = "post_u8"}
\* bytes that are a packed envelope
IsPacked(bytes) == "bytes" \in DOMAIN bytes /\ bytes.bytes = "packed"

\* what is handed to post_u8 is an anonymous pack toward the agency verkey of
\* a Forward to the next hop, whose @msg is the envelope of an earlier
\* authenticated pack
PostsAreForwards ==
    (SentSecure \/ DownloadRequested) =>
        \A i \in Posts :
            LET data == Calls[i].data
                forward == data.message.json
            IN /\ IsPacked(data)
               /\ data.sender = None
               /\ data.recipients = <<dl.config.agency_verkey[1]>>
               /\ forward.type = "FWD"
               /\ forward.fwd = dl.config.remote_to_sdk_did[1]
               /\ IsPacked(forward.msg)
               /\ forward.msg.sender # None
               /\ \E j \in 1..(i - 1) :
                     /\ Calls[j].op = "pack_message"
                     /\ Envelope(Calls[j]) = forward.msg

(* C22, as stated: every byte sequence handed to post_u8 is an anonymous   *)
(* pack toward the agency verkey of a Forward whose @fwd is the next hop   *)
(* and whose @msg is the output of an earlier authenticated pack; and      *)
(* ForwardV2::new fails with InvalidState rather than wrap bytes that are  *)
(* not a packed JSON envelope.                                             *)
C22_OnlyPackedForwarded ==
    /\ PostsAreForwards
    /\ (ForwardBuilt /\ ~IsPacked(dl.msg)) => dl.res = Err("InvalidState")

(* C22, amended: what is posted is as stated; ForwardV2::new fails with    *)
(* InvalidState exactly when the bytes are not JSON, and wraps any JSON it *)
(* is given, a cleartext message as well as a packed envelope.             *)
C22_PostedForwardsOfPacks ==
    /\ PostsAreForwards
    /\ ForwardBuilt =>
           IF IsPacked(dl.msg) \/ "json" \in DOMAIN dl.msg
           THEN /\ dl.res.ok
                /\ dl.res.val.body.fwd = dl.fwd
                /\ dl.res.val.body.msg = dl.msg
           ELSE dl.res = Err("InvalidState")

C22_Witness ==
    /\ DownloadRequested
    /\ Posts # {}
    /\ dl.out.res.ok

C22_WitnessCleartext ==
    /\ ForwardBuilt
    /\ "json" \in DOMAIN dl.msg
    /\ dl.res.ok

\* the three packs of the request of send_secure, as far as they were made
SendSecurePacks ==
    LET request == to_string(encode(GetMessagesRequest("GetMessages", dl.self)))
    IN /\ Len(Calls) >= 1 =>
              Calls[1] = PackCall(Some(dl.self.to_vk), <<dl.self.agent_vk>>, request)
       /\ Len(Calls) >= 2 =>
              /\ Calls[2].op = "pack_message"
              /\ Calls[2].sender = dl.config.sdk_to_remote_verkey
              /\ Calls[2].recipients = <<dl.config.remote_to_sdk_verkey[1]>>
              /\ Calls[2].message.json =
                     [type |-> "FWD", fwd |-> dl.self.agent_did,
                      msg |-> Envelope(Calls[1])]
       /\ Len(Calls) >= 3 =>
              /\ Calls[3].op = "pack_message"
              /\ Calls[3].sender = None
              /\ Calls[3].recipients = <<dl.config.agency_verkey[1]>>
              /\ Calls[3].message.json =
                     [type |-> "FWD", fwd |-> dl.config.remote_to_sdk_did[1],
                      msg |-> Envelope(Calls[2])]

(* C23, as stated: the request of send_secure is two nested packs, the     *)
(* authenticated pack of the GET_MSGS message from to_vk to agent_vk,      *)
(* wrapped in a Forward to agent_did, then one anonymous pack of a Forward *)
(* toward the agency; the POST comes after the outer pack and the response *)
(* is decoded after the POST.                                              *)
C23_TwoNestedPacks ==
    (SentSecure /\ Posts # {}) =>
        /\ Cardinality({i \in 1..Len(Calls) : Calls[i].op = "pack_message"}) = 2
        /\ Calls[1].sender = Some(dl.self.to_vk)
        /\ Calls[1].recipients = <<dl.self.agent_vk>>
        /\ Calls[1].message.json.type = "GET_MSGS"
        /\ Calls[2].sender = None
        /\ Calls[2].message.json.type = "FWD"
        /\ Calls[2].message.json.fwd = dl.self.agent_did
        /\ Calls[2].message.json.msg = Envelope(Calls[1])
        /\ Posts = {3}
        /\ \A i \in 1..Len(Calls) : Calls[i].op = "parse_response" => i = 4

(* C23, amended: the request of send_secure is three nested packs and two  *)
(* Forwards: the authenticated pack of the GET_MSGS message from to_vk to  *)
(* agent_vk; a Forward to agent_did of it, packed with the SDK-to-agent    *)
(* key as sender for the agency agent; a Forward to the agency agent's DID *)
(* of that, packed anonymously toward the agency.  The POST comes after    *)
(* the third pack, with its envelope, and the response is decoded after a  *)
(* POST that succeeded.                                                    *)
C23_ThreeNestedPacks ==
    SentSecure =>
        /\ SendSecurePacks
        /\ \A i \in 1..Len(Calls) :
              /\ Calls[i].op = "pack_message" => i <= 3
              /\ Calls[i].op = "post_u8" =>
                     /\ i = 4
                     /\ Calls[i].data = Envelope(Calls[3])
              /\ Calls[i].op = "parse_response" =>
                     /\ i = 5
                     /\ dl.post = "Ok"
                     /\ Calls[i].response = dl.response
        /\ dl.out.res.ok => Len(Calls) = 5

C23_Witness ==
    /\ SentSecure
    /\ Len(Calls) = 5
    /\ dl.out.res.ok

(* C24, as stated: the GET_MSGS_BY_CONNS request of download_messages is   *)
(* packed once, for the agency, and is in no Forward when it is posted.    *)
C24_SinglePackNoForward ==
    (DownloadRequested /\ Posts # {}) =>
        /\ Cardinality({i \in 1..Len(Calls) : Calls[i].op = "pack_message"}) = 1
        /\ \A i \in Posts :
              /\ Calls[i].data = Envelope(Calls[1])
              /\ Calls[i].data.message.json.type = "GET_MSGS_BY_CONNS"

(* C24, amended: the GET_MSGS_BY_CONNS request of download_messages has no *)
(* pack for a cloud agent of a connection, and goes through two packs and  *)
(* one Forward: it is packed with the SDK-to-agent key as sender for the   *)
(* agency agent, and the Forward to the agency agent's DID of that is      *)
(* packed anonymously toward the agency and posted.                        *)
C24_PackedAndForwarded ==
    (DownloadRequested /\ Posts # {}) =>
        /\ Posts = {3}
        /\ Calls[1] = PackCall(dl.config.sdk_to_remote_verkey,
                               <<dl.config.remote_to_sdk_verkey[1]>>,
                               to_string(encode(GetMessagesRequest(
                                   "GetMessagesByConnections", dl.self))))
        /\ Calls[1].message.json.type = "GET_MSGS_BY_CONNS"
        /\ Calls[2] = PackCall(None, <<dl.config.agency_verkey[1]>>,
                               to_string([type |-> "FWD",
                                          fwd |-> dl.config.remote_to_sdk_did[1],
                                          msg |-> Envelope(Calls[1])]))
        /\ Calls[3].data = Envelope(Calls[2])

C24_Witness ==
    /\ DownloadRequested
    /\ Posts = {3}
    /\ dl.self.uids # None
    /\ dl.out.res.ok
    /\ dl.out.res.val # <<>>

\* the response was decoded to a wire message with this token
Decoded(token) ==
    /\ dl.post = "Ok"
    /\ Posts # {}
    /\ IsPacked(dl.response)
    /\ dl.response.message.type = token

(* C25: a decoded response of another variant than the expected one is     *)
(* rejected with InvalidHttpResponse and gives no messages: send_secure    *)
(* takes MSGS only, download_messages takes MSGS_BY_CONNS only, each       *)
(* rejects the response of the other and every other variant.              *)
C25_OnlyExpectedVariant ==
    \A token \in Tokens :
        /\ (SentSecure /\ Decoded(token)) =>
               IF token = "MSGS" THEN dl.out.res.ok
               ELSE dl.out.res = Err("InvalidHttpResponse")
        /\ (DownloadRequested /\ Decoded(token)) =>
               IF token = "MSGS_BY_CONNS" THEN dl.out.res.ok
               ELSE dl.out.res = Err("InvalidHttpResponse")

C25_Witness ==
    /\ SentSecure
    /\ Decoded("MSGS_BY_CONNS")
    /\ dl.out.res = Err("InvalidHttpResponse")

C25_WitnessDownload ==
    /\ DownloadRequested
    /\ Decoded("MSGS")
    /\ dl.out.res = Err("InvalidHttpResponse")

----------------------------------------------------------------------------
(* The codec of the wire messages.                                         *)

WireDecoded == dl.op = "decode"
RoundTripped == dl.op = "round_trip"
\* the table of the wire message families and their tag tokens
TokenTable ==
    [Routing |-> {"FWD", "SEND_REMOTE_MSG", "REMOTE_MSG_SENT"},
     Onboarding |-> {"CONNECT", "CONNECTED", "SIGNUP", "SIGNED_UP", "CREATE_AGENT",
                     "AGENT_CREATED"},
     Pairwise |-> {"CREATE_KEY", "KEY_CREATED", "GET_MSGS", "MSGS",
                   "GET_MSGS_BY_CONNS", "MSGS_BY_CONNS", "UPDATE_CONN_STATUS",
                   "CONN_STATUS_UPDATED", "UPDATE_MSG_STATUS_BY_CONNS",
                   "MSG_STATUS_UPDATED_BY_CONNS"},
     Configs |-> {"UPDATE_CONFIGS", "CONFIGS_UPDATED", "UPDATE_COM_METHOD",
                  "COM_METHOD_UPDATED"}]
TableTokens == UNION {TokenTable[f] : f \in DOMAIN TokenTable}
\* the tag of a body is one of the table
Tagged == "type" \in DOMAIN dl.value /\ dl.value.type \in TableTokens

(* C26: decoding a wire body dispatches on its tag token alone: each of    *)
(* the 23 tokens of the table selects the parser of one variant, its own;  *)
(* a body the selected parser rejects fails, whatever other parser would   *)
(* take it; a token outside the table, or no tag, fails; and in the agency *)
(* response path each of these failures is InvalidJson.                    *)
C26_DispatchOnTokenAlone ==
    /\ Cardinality(TableTokens) = 23
    /\ Tokens = TableTokens
    /\ \A s, t \in TableTokens : Variant(s) = Variant(t) => s = t
    /\ WireDecoded =>
          /\ ~Tagged => ~dl.res.ok
          /\ ("type" \in DOMAIN dl.value /\ ~Tagged) =>
                 dl.res = Err("Unexpected @type field structure.")
          /\ Tagged =>
                 LET selected == Deserialized(Struct(Variant(dl.value.type)), dl.value)
                 IN IF selected.ok
                    THEN dl.res = Ok([variant |-> Variant(dl.value.type),
                                      body |-> selected.val])
                    ELSE ~dl.res.ok
          /\ dl.response = IF dl.res.ok THEN Ok(<<dl.res.val>>) ELSE Err("InvalidJson")

\* a body of a Forward under the tag MSGS fails, though the parser of FWD
\* takes it
C26_Witness ==
    /\ WireDecoded
    /\ Tagged
    /\ dl.value.type = "MSGS"
    /\ Deserialized("ForwardV2", dl.value).ok
    /\ ~dl.res.ok
    /\ dl.response = Err("InvalidJson")

C26_WitnessUnknown ==
    /\ WireDecoded
    /\ "type" \in DOMAIN dl.value
    /\ dl.value.type = "UNKNOWN"
    /\ dl.response = Err("InvalidJson")

C26_WitnessDecoded ==
    /\ WireDecoded
    /\ "type" \in DOMAIN dl.value
    /\ dl.value.type = "MSGS_BY_CONNS"
    /\ dl.res.ok
    /\ dl.res.val.variant = "GetMessagesByConnectionsResponse"
    /\ dl.res.val.body.msgs # <<>>

(* C27: for every valid wire message m, decode(encode(m)) is the same      *)
(* variant with the same field values.                                     *)
C27_RoundTrip ==
    RoundTripped => dl.back = Ok(dl.message)

\* the request of download_messages comes back as another variant
C27_OtherVariant ==
    /\ RoundTripped
    /\ dl.message \in {GetMessagesRequest("GetMessagesByConnections", self) :
                          self \in Builders}
    /\ dl.back.ok
    /\ dl.back.val.variant # dl.message.variant
    /\ dl.back.val.body = dl.message.body

\* a response comes back with other field values in a Message record
C27_OtherFields ==
    /\ RoundTripped
    /\ dl.message.variant = "GetMessagesResponse"
    /\ dl.back.ok
    /\ dl.back.val.variant = dl.message.variant
    /\ dl.back.val.body # dl.message.body

----------------------------------------------------------------------------
(* The type of a payload.                                                  *)

TypeBuilt == dl.op = "build_v2"
\* the table of the kinds: family and name of the type of each
KindTable(kind) ==
    CASE kind = "CredOffer" -> [family |-> "CredentialExchange", name |-> "credential-offer"]
      [] kind = "CredReq" -> [family |-> "CredentialExchange", name |-> "credential-request"]
      [] kind = "Cred" -> [family |-> "CredentialExchange", name |-> "credential"]
      [] kind = "ProofRequest" ->
             [family |-> "CredentialExchange", name |-> "presentation-request"]
      [] kind = "Proof" -> [family |-> "CredentialExchange", name |-> "presentation"]
\* a type is the one of the table for this kind
OfTable(type, kind) ==
    /\ type.version = version(type.family)
    /\ IF kind \in {"CredOffer", "CredReq", "Cred", "ProofRequest", "Proof"}
       THEN /\ type.family = [family |-> KindTable(kind).family]
            /\ type.type_ = KindTable(kind).name
       ELSE /\ type.family = [family |-> "Unknown", of |-> kind]
            /\ type.type_ = kind

(* C31: under every configured protocol type, build_v2(kind) has family    *)
(* CredentialExchange and the name credential-offer, credential-request,   *)
(* credential, presentation-request, presentation for CredOffer, CredReq,  *)
(* Cred, ProofRequest, Proof, and family Unknown(s) and name s for         *)
(* Other(s), with the version token of the family; and this is the type of *)
(* the payload encrypt packs.                                              *)
C31_KindToTypeFixed ==
    /\ TypeBuilt => OfTable(dl.res, dl.kind)
    /\ (Encrypted /\ dl.thread # None) =>
           OfTable(dl.out.calls[2].message.json.type_, dl.msg_type)

\* under protocol type V1 the type of a credential offer has the name of the
\* first table
C31_V1Name ==
    /\ Encrypted
    /\ dl.protocol_type = "V1"
    /\ dl.msg_type = "CredOffer"
    /\ dl.out.res.ok
    /\ dl.out.res.val.message.json.type_.family = [family |-> "CredentialExchange"]
    /\ dl.out.res.val.message.json.type_.type_ = "CRED_OFFER"

----------------------------------------------------------------------------
(* The empty results of download_messages.                                 *)

\* the request was built and posted
Posted == Downloaded /\ dl.in.env = NoDownloadEnv
EmptyResponse == dl.in.response.bytes = "empty"
\* the response is a MSGS_BY_CONNS message of no connection
NoBundles ==
    /\ dl.in.response.bytes = "packed"
    /\ dl.in.response.message.type = "MSGS_BY_CONNS"
    /\ Sent = <<>>

C32_WitnessMocks ==
    /\ Posted
    /\ dl.in.mocks
    /\ EmptyResponse
    /\ dl.res = Ok(<<>>)

C32_WitnessNoBundles ==
    /\ Posted
    /\ ~dl.in.mocks
    /\ NoBundles
    /\ dl.res = Ok(<<>>)

----------------------------------------------------------------------------
(* The configuration of the requests.                                      *)

Requested == SentSecure \/ DownloadRequested
\* a slot the request needs is absent
SlotAbsent == \E key \in DOMAIN dl.config : dl.config[key] = None
\* nothing was posted and no response was parsed
OnlyPacked == \A i \in 1..Len(Calls) : Calls[i].op = "pack_message"
\* a pack was asked for with a sender key the wallet has not
PackRefused ==
    \E i \in 1..Len(Calls) :
        /\ Calls[i].op = "pack_message"
        /\ Calls[i].sender # None
        /\ Calls[i].sender[1] \notin dl.keys

(* C33, as stated: when a slot of the configuration a request needs is     *)
(* absent, send_secure and download_messages fail with                     *)
(* InvalidConfiguration, nothing is posted and no response is parsed.      *)
C33_InvalidConfiguration ==
    (Requested /\ SlotAbsent) =>
        /\ dl.out.res = Err("InvalidConfiguration")
        /\ OnlyPacked

(* C33, amended: when a slot of the configuration a request needs is       *)
(* absent, send_secure and download_messages fail, nothing is posted and   *)
(* no response is parsed; the error is InvalidConfiguration unless a pack  *)
(* made before the lookup of the absent slot failed, and then it is the    *)
(* error of that pack.                                                     *)
C33_FailsBeforePost ==
    (Requested /\ SlotAbsent) =>
        /\ OnlyPacked
        /\ dl.out.res = IF PackRefused THEN Err("PackFailed")
                        ELSE Err("InvalidConfiguration")

\* the agency verkey is looked up after two packs of send_secure
C33_Witness ==
    /\ SentSecure
    /\ dl.config.agency_verkey = None
    /\ Len(Calls) = 2
    /\ dl.out.res = Err("InvalidConfiguration")

C33_WitnessDownload ==
    /\ DownloadRequested
    /\ dl.config.remote_to_sdk_did = None
    /\ Calls = <<>>
    /\ dl.out.res = Err("InvalidConfiguration")

C33_WitnessPack ==
    /\ SentSecure
    /\ SlotAbsent
    /\ dl.out.res = Err("PackFailed")

----------------------------------------------------------------------------
(* The typing of the messages a verifier receives.                         *)

Translated == dl.op = "VerifierMessages::from"

(* C34: the translation of an inbound message for the verifier is total:   *)
(* a Presentation gives VerifyPresentation with that presentation, a       *)
(* PresentationProposal gives PresentationProposalReceived with that       *)
(* proposal, a CommonProblemReport gives PresentationRejectReceived with   *)
(* that report, every other message, an Ack and a PresentationRequest      *)
(* among them, gives Unknown; SendPresentationRequest is never the result. *)
C34_VerifierTyping ==
    Translated =>
        /\ dl.res.type \in {"VerifyPresentation", "PresentationProposalReceived",
                            "PresentationRejectReceived", "Unknown"}
        /\ dl.res.type # "SendPresentationRequest"
        /\ dl.msg.type = "Presentation" <=>
               (dl.res.type = "VerifyPresentation" /\ dl.res.presentation = dl.msg.body)
        /\ dl.msg.type = "PresentationProposal" <=>
               (dl.res.type = "PresentationProposalReceived"
                /\ dl.res.proposal = dl.msg.body)
        /\ dl.msg.type = "CommonProblemReport" <=>
               (dl.res.type = "PresentationRejectReceived"
                /\ dl.res.problem_report = dl.msg.body)
        /\ dl.msg.type \notin {"Presentation", "PresentationProposal",
                                "CommonProblemReport"} <=>
               dl.res = [type |-> "Unknown"]

C34_Witness ==
    /\ Translated
    /\ dl.msg.type = "Ack"
    /\ dl.res.type = "Unknown"

C34_WitnessPresentation ==
    /\ Translated
    /\ dl.msg.type = "Presentation"
    /\ dl.msg.body.presentations_attach # None
    /\ dl.res.type = "VerifyPresentation"

C34_WitnessRequest ==
    /\ Translated
    /\ dl.msg.type = "PresentationRequest"
    /\ dl.res.type = "Unknown"

----------------------------------------------------------------------------
(* The edges of the Prover.                                                *)

\* Possible Transitions, as the comment above enum ProverState lists them
DocumentedEdges ==
    {<<"Initiated", "PresentationPrepared">>,
     <<"Initiated", "PresentationPreparationFailed">>,
     <<"PresentationPrepared", "PresentationSent">>,
     <<"PresentationPreparationFailed", "Finished">>,
     <<"PresentationSent", "Finished">>}

(* C35: along any sequence of commands the variant of the Prover's state   *)
(* changes along the documented edges only: no step goes back to an        *)
(* earlier variant, none skips a variant, and a machine that was in        *)
(* PresentationPreparationFailed is never in PresentationPrepared or       *)
(* PresentationSent afterwards.                                            *)
C35_DocumentedEdgesOnly ==
    /\ [][\/ sm'.state.tag = sm.state.tag
          \/ <<sm.state.tag, sm'.state.tag>> \in DocumentedEdges]_vars
    /\ [](Tag = "PresentationPreparationFailed" =>
              [](Tag \notin {"PresentationPrepared", "PresentationSent"}))

\* the machine went from the failed preparation to Finished, and was given
\* PreparePresentation again there
C35_Witness ==
    /\ Tag = "Finished"
    /\ entry.from = "PresentationPreparationFailed"
    /\ CmdType = "PreparePresentation"
    /\ PreTag = "Finished"

----------------------------------------------------------------------------
(* The message another message refers to.                                  *)

RefResolved == dl.op = "get_ref_msg"
\* the first query returned a first message that was accepted and refers to
\* another
Referring ==
    /\ dl.first.ok
    /\ dl.first.val # <<>>
    /\ dl.first.val[1].status_code = "Accepted"
    /\ dl.first.val[1].ref_msg_id # None
\* the second query returned a first message that is received and has a payload
Pending ==
    /\ dl.second.ok
    /\ dl.second.val # <<>>
    /\ dl.second.val[1].status_code = "Received"
    /\ dl.second.val[1].payload # None

C36_WitnessNotAccepted ==
    /\ RefResolved
    /\ dl.valid = "Ok"
    /\ dl.first.ok
    /\ dl.first.val # <<>>
    /\ dl.first.val[1].ref_msg_id # None
    /\ dl.first.val[1].status_code = "Received"
    /\ dl.out.res = Err("NotReady")
    /\ Len(Calls) = 1

C36_WitnessEmpty ==
    /\ RefResolved
    /\ Referring
    /\ dl.second = Ok(<<>>)
    /\ dl.out.res = Err("InvalidHttpResponse")

----------------------------------------------------------------------------
(* The round trip of the remote message types.                             *)

RemoteEncoded == dl.op = "remote_encode"
\* the Message records of a response that was encoded and decoded again, as
\* they went in and as they came back
RecordsIn == dl.message.body.msgs
RecordsBack == dl.back.val.body.msgs

(* C37: for every RemoteMessageType t, Other(s) for any string s included, *)
(* decode(encode(t)) = t; and the type of a Message record is the same     *)
(* after the record was serialized and deserialized.                       *)
C37_RemoteTypeRoundTrip ==
    /\ RemoteEncoded => dl.back = Ok(dl.self)
    /\ (RoundTripped /\ dl.message.variant = "GetMessagesResponse" /\ dl.back.ok) =>
           \A i \in 1..Len(RecordsIn) :
               RecordsBack[i].msg_type = RecordsIn[i].msg_type

\* Other("CONN_REQ_ACCEPTED") is written as the alias and read as ConnReqAnswer
C37_OtherBecomesKnown ==
    /\ RemoteEncoded
    /\ dl.self = Other("CONN_REQ_ACCEPTED")
    /\ dl.wire = JsonString("CONN_REQ_ACCEPTED")
    /\ dl.back = Ok(Known("ConnReqAnswer"))

----------------------------------------------------------------------------
(* Thread correlation of step in PresentationSent.                         *)

\* the thread of the Ack or problem report the last step was given
ReplyThread ==
    IF CmdType = "PresentationAckReceived" THEN last.cmd.ack.thread
    ELSE last.cmd.problem_report.thread

\* the last step gave a machine in PresentationSent an Ack or a problem
\* report of another thread than its own
ForeignReply ==
    /\ Stepped
    /\ PreTag = "PresentationSent"
    /\ CmdType \in {"PresentationAckReceived", "PresentationRejectReceived"}
    /\ ~is_reply(ReplyThread, thread_id(last.pre))

(* C38: step(PresentationAckReceived(a)) or step(PresentationRejectReceived(r)) *)
(* on a Prover in PresentationSent, where the thid of a or r differs from  *)
(* thread_id(), leaves the state PresentationSent.                         *)
C38_ForeignReplyIgnored ==
    ForeignReply => /\ last.res.ok
                    /\ last.res.sm = last.pre
                    /\ Tag = "PresentationSent"

\* an Ack without thid finished the presentation
C38_ForeignAckFinishes ==
    /\ ForeignReply
    /\ CmdType = "PresentationAckReceived"
    /\ last.cmd.ack.thread.thid = None
    /\ Tag = "Finished"
    /\ sm.state.status = StatusSuccess

----------------------------------------------------------------------------
(* Transmission of the presentation when failed steps are retried.         *)

\* the calls that handed a presentation to the peer
Transmissions ==
    {i \in 1..Len(effects) :
        effects[i].op = "send_message" /\ effects[i].msg.type = "Presentation"}

(* C39: over any sequence of step calls, the caller keeping the machine it *)
(* had whenever step returns an error, the presentation is transmitted at  *)
(* most once, and once it was transmitted the machine is in                *)
(* PresentationSent or Finished.                                           *)
C39_TransmittedOnce ==
    /\ Cardinality(Transmissions) <= 1
    /\ Transmissions # {} => Tag \in {"PresentationSent", "Finished"}

\* remove_pending_message failed after the presentation had gone out, the
\* caller kept the prepared machine, and the retry sent it once more
C39_SentTwice ==
    /\ Cardinality(Transmissions) = 2
    /\ errors = 1
    /\ effects[1] = effects[2]
    /\ Tag = "PresentationSent"

\* the presentation is out and the machine still is PresentationPrepared
C39_SentButPrepared ==
    /\ Transmissions = {1}
    /\ ~last.res.ok
    /\ last.res.err \in RemoveErrors
    /\ Tag = "PresentationPrepared"

----------------------------------------------------------------------------
(* The presentation that presentation() gives out.                         *)

\* the presentations PreparePresentation can build from the request the
\* machine was made for
BuiltFromRequest ==
    {build_presentation(new(given.presentation_request, given.source_id).state,
                        m.credentials, m.self_attested_attrs, NoEnv).val :
        m \in PreparePresentationCmds}

(* C40: in every reachable state where presentation() returns Ok, the      *)
(* presentation is the one PreparePresentation built from the request and  *)
(* its thread thid is thread_id(): in PresentationPrepared, in             *)
(* PresentationSent and in Finished however it was reached.                *)
C40_PresentationIsBuilt ==
    presentation(sm).ok =>
        /\ presentation(sm).val \in BuiltFromRequest
        /\ presentation(sm).val.thread.thid = Some(thread_id(sm))

\* Finished was reached from PresentationPreparationFailed: presentation()
\* answers Ok with the default presentation, which has no thid
C40_DefaultPresentation ==
    /\ Tag = "Finished"
    /\ entry.from = "PresentationPreparationFailed"
    /\ presentation(sm) = Ok(PresentationCreate)
    /\ presentation(sm).val.thread.thid = None

====
